---- MODULE Spec2Model ----
(***************************************************************************)
(* Transaction scoping of xtsqlorm: SessionProvider.transaction(), the     *)
(* Repository families built on it, OrmOperations.advanced_query and the   *)
(* UnitOfWork context manager, over a small committed store.               *)
(*                                                                         *)
(* A session is modelled by what the code does to it: the rows it has      *)
(* written but not committed (pend), the commit / rollback / close calls   *)
(* the last context-manager exit made on it, in order (log), whether       *)
(* commit or rollback was ever invoked on it before its first close (preC, *)
(* preR), and whether a statement ran on it after its close (reused).      *)
(* Committed storage (db) changes only when a commit succeeds.             *)
(* live holds the sessions some caller can still reach; done holds the     *)
(* session of the transaction() block that finished last, as it was left.  *)
(* scope says which facility the calling program drives: the provider with *)
(* its repositories, or one UnitOfWork.  The two meet only in storage.     *)
(* ops is one Repository or OrmOperations instance: its configuration, its *)
(* query cache and the call it served last; page is one run of             *)
(* get_paginated over the pages of a table; fetch is one get_all or        *)
(* filter_by_conditions call on a table; conc is a program of concurrent   *)
(* threads or tasks sharing one provider, UnitOfWork or session factory;   *)
(* aio is a Repository and an AsyncRepository given the same calls; eng is *)
(* a connection manager and the pings made on it; race is one get_by_id    *)
(* and one update running concurrently on a caching OrmOperations; gen is  *)
(* one generate_model_file call.                                           *)
(***************************************************************************)
EXTENDS Integers, Sequences, FiniteSets, Bags, TLC

VARIABLES scope, live, done, db, nextId, uow, ops, page, fetch, conc, aio,
          eng, race, gen

vars ==
    <<scope, live, done, db, nextId, uow, ops, page, fetch, conc, aio,
      eng, race, gen>>

\* ---------------------------------------------------------------- bounds
MaxSessions == 2
MaxId == 1
MaxDepth == 2
MaxItems == 2
MaxRows == 3
MaxPageSize == 3
MaxConds == 2
MaxThreads == 2
MaxCalls == 2
MaxPings == 2

MaxNameLen == 3

\* ---------------------------------------------------------------- values
Vals == {"a", "b"}
NoRow == "NoRow"
Keep == "Keep"
Ids == 1 .. MaxId

\* the entity types a UnitOfWork hands out repositories for, and the field
\* values a row of each type can hold: a row's value tells its table
Models == {"User", "Order"}
OrderVals == {"o"}
ValsOf(m) == IF m = "User" THEN Vals ELSE OrderVals
TypesOf(S) == {m \in Models : \E j \in Ids : S.pend[j] \in ValsOf(m)}
Clean == [i \in Ids |-> Keep]
EmptyDb == [i \in Ids |-> NoRow]

BodyOutcomes == {"ok", "exc", "base"}

\* ------------------------------------------------- the session primitives
\* sessionmaker(): a fresh Session object, nothing pending, nothing invoked
NewSession(kind) ==
    [kind |-> kind, body |-> "run", closed |-> FALSE, pend |-> Clean,
     log |-> <<>>, preC |-> FALSE, preR |-> FALSE, out |-> "none",
     uses |-> 0, reused |-> FALSE, query |-> FALSE, dirty |-> FALSE]

\* None: no session stored, none finished yet
NoSession == NewSession("none")

\* what a statement on session S reads: its own pending rows over storage
View(S, d) == [i \in Ids |-> IF S.pend[i] = Keep THEN d[i] ELSE S.pend[i]]

\* any statement executed on S; a closed session silently begins again
SessStmt(S) == [S EXCEPT !.reused = @ \/ S.closed]

\* session.add(instance) / setattr(instance, ...) on a loaded row
SessPut(S, i, v) ==
    [SessStmt(S) EXCEPT !.pend[i] = v]

\* session.delete(instance)
SessDelete(S, i) ==
    [SessStmt(S) EXCEPT !.pend[i] = NoRow]

\* session.commit(): on success the pending rows become committed
SessCommit(S, ok) ==
    [S EXCEPT !.log = Append(@, IF ok THEN "commit" ELSE "commitX"),
              !.preC = @ \/ ~S.closed,
              !.pend = IF ok THEN Clean ELSE @]

\* (variant: a commit that reports success and stores nothing)
CommitDbStoresNothing(S, d, ok) == d

CommitDb(S, d, ok) == IF ok THEN View(S, d) ELSE d

\* session.rollback(): on success the pending rows are discarded
SessRollback(S, ok) ==
    [S EXCEPT !.log = Append(@, IF ok THEN "rollback" ELSE "rollbackX"),
              !.preR = @ \/ ~S.closed,
              !.pend = IF ok THEN Clean ELSE @]

\* session.close(): releases the connection, discarding what is pending
SessClose(S) ==
    [S EXCEPT !.log = Append(@, "close"), !.pend = Clean, !.closed = TRUE]

\* a context-manager exit starts its own record of calls, noting whether
\* the body left writes pending ...
Exiting(S) == [S EXCEPT !.log = <<>>, !.dirty = (S.pend # Clean)]

\* ... and leaves what escaped the body and what the caller receives
Exited(S, body, out) == [S EXCEPT !.body = body, !.out = out]

\* a call outside an exit leaves the last exit's record as it was
Manual(S0, S) == [S EXCEPT !.log = S0.log]

\* ------------------------------------------ SessionProvider.create_session
\* a new Session beside the ones already alive
CreateSession(ss, kind) == [S |-> NewSession(kind), others |-> ss]

\* a caller obtaining the session for one call or block
Use(S) == [S EXCEPT !.uses = @ + 1]

\* --------------------------------------------- SessionProvider.transaction
\* (variant: the commit placed where it also runs after a raising body)
TxTryCommitsAnyway(S, d, body, cOk) ==
    [s |-> SessCommit(S, cOk), db |-> CommitDb(S, d, cOk),
     err |-> IF body = "ok" THEN (IF cOk THEN "none" ELSE "commitErr")
             ELSE IF body = "exc" THEN "bodyExc" ELSE "bodyBase"]

\* the try block after the yield: commit when the body did not raise
TxTry(S, d, body, cOk) ==
    IF body = "ok"
    THEN [s |-> SessCommit(S, cOk), db |-> CommitDb(S, d, cOk),
          err |-> IF cOk THEN "none" ELSE "commitErr"]
    ELSE [s |-> S, db |-> d,
          err |-> IF body = "exc" THEN "bodyExc" ELSE "bodyBase"]

\* (variant: the commit moved out of the try, so its failure is not caught)
TxCatchesBodyOnly(err) == err = "bodyExc"

\* except Exception: ordinary exceptions only, from the body or from commit
TxCatches(err) == err \in {"bodyExc", "commitErr"}

\* (variant: the handler without its raise)
TxExceptSwallows(S, d, err, rOk) ==
    [s |-> SessRollback(S, rOk), db |-> d,
     err |-> IF rOk THEN "none" ELSE "rollbackErr"]

\* (variant: the handler tries the commit once more before rolling back)
TxExceptRetries(S, d, err, rOk) ==
    [s |-> SessRollback(SessCommit(S, FALSE), rOk), db |-> d,
     err |-> IF rOk THEN err ELSE "rollbackErr"]

\* (variant: the rollback wrapped in a try that drops its failure)
TxExceptHidesRollbackFailure(S, d, err, rOk) ==
    [s |-> SessRollback(S, rOk), db |-> d, err |-> err]

\* the handler: rollback, then re-raise; a failing rollback raises instead
TxExcept(S, d, err, rOk) ==
    [s |-> SessRollback(S, rOk), db |-> d,
     err |-> IF rOk THEN err ELSE "rollbackErr"]

\* (variant: no finally clause)
TxFinallyLeavesOpen(S) == S

\* finally: close
TxFinally(S) == SessClose(S)

\* the whole exit of the context manager, from the end of the body on
TransactionExit(S, d, body, cOk, rOk) ==
    LET t == TxTry(Exiting(S), d, body, cOk)
        h == IF TxCatches(t.err) THEN TxExcept(t.s, t.db, t.err, rOk) ELSE t
        o == IF h.err = "none" THEN "ok" ELSE h.err
    IN  [s |-> Exited(TxFinally(h.s), body, o), db |-> h.db, out |-> o]

\* ----------------------------------------------------- Repository bodies
RepoOps == {"get_by_id", "create", "update", "delete", "get_all", "count",
            "exists"}
InSessionOps == {"get_by_id_in_session", "create_in_session",
                 "update_in_session", "delete_in_session"}

Present(S, d) == {i \in Ids : View(S, d)[i] # NoRow}

\* (variant: update adding the row it did not find)
RepoBodyUpserts(op, S, d, i, v, nid) ==
    CASE op = "create" -> SessPut(S, nid, v)
      [] op = "update" -> IF i \in Ids THEN SessPut(S, i, v) ELSE SessStmt(S)
      [] op = "delete" ->
           IF i \in Present(S, d) THEN SessDelete(S, i) ELSE SessStmt(S)
      [] OTHER -> SessStmt(S)

\* the statements inside the with block of each auto-transaction method
RepoBody(op, S, d, i, v, nid) ==
    CASE op = "create" -> SessPut(S, nid, v)
      [] op = "update" ->
           IF i \in Present(S, d) THEN SessPut(S, i, v) ELSE SessStmt(S)
      [] op = "delete" ->
           IF i \in Present(S, d) THEN SessDelete(S, i) ELSE SessStmt(S)
      [] OTHER -> SessStmt(S)

\* (variant: create_in_session written like create, with its own commit)
InSessionBodyCommits(op, S, d, i, v, nid) ==
    CASE op = "create_in_session" ->
           [s |-> SessCommit(SessPut(S, nid, v), TRUE),
            db |-> CommitDb(SessPut(S, nid, v), d, TRUE)]
      [] op = "update_in_session" ->
           [s |-> IF i \in Present(S, d) THEN SessPut(S, i, v)
                  ELSE SessStmt(S),
            db |-> d]
      [] op = "delete_in_session" ->
           [s |-> IF i \in Present(S, d) THEN SessDelete(S, i)
                  ELSE SessStmt(S),
            db |-> d]
      [] OTHER -> [s |-> SessStmt(S), db |-> d]

\* the caller-supplied-session family: the same statements, nothing else
InSessionBody(op, S, d, i, v, nid) ==
    CASE op = "get_by_id_in_session" -> [s |-> SessStmt(S), db |-> d]
      [] op = "create_in_session" -> [s |-> SessPut(S, nid, v), db |-> d]
      [] op = "update_in_session" ->
           [s |-> IF i \in Present(S, d) THEN SessPut(S, i, v)
                  ELSE SessStmt(S),
            db |-> d]
      [] op = "delete_in_session" ->
           [s |-> IF i \in Present(S, d) THEN SessDelete(S, i)
                  ELSE SessStmt(S),
            db |-> d]

\* ------------------------------------------------------ UnitOfWork.__exit__
\* (variant: the exit ignoring exc_type)
UowAlwaysCommits(exc) == TRUE

\* if exc_type is None
UowCommitsOnExit(exc) == exc = "ok"

\* (variant: the exit without its else branch)
UowExitSkipsRollback(S, d, exc, cOk, rOk) ==
    LET E == Exiting(S)
        t == IF exc = "ok"
             THEN [s |-> SessCommit(E, cOk), db |-> CommitDb(S, d, cOk),
                   out |-> IF cOk THEN "ok" ELSE "commitErr"]
             ELSE [s |-> E, db |-> d,
                   out |-> IF exc = "exc" THEN "bodyExc" ELSE "bodyBase"]
    IN  [s |-> Exited(SessClose(t.s), exc, t.out), db |-> t.db,
         out |-> t.out]

UowExitOp(S, d, exc, cOk, rOk) ==
    LET E == Exiting(S)
        t == IF UowCommitsOnExit(exc)
             THEN [s |-> SessCommit(E, cOk), db |-> CommitDb(S, d, cOk),
                   out |-> IF cOk THEN "ok" ELSE "commitErr"]
             ELSE [s |-> SessRollback(E, rOk), db |-> d,
                   out |-> IF ~rOk THEN "rollbackErr"
                           ELSE IF exc = "exc" THEN "bodyExc" ELSE "bodyBase"]
    IN  [s |-> Exited(SessClose(t.s), exc, t.out), db |-> t.db,
         out |-> t.out]

\* UnitOfWork.session: the stored session, whatever its state
UowSessionProperty(u) == u.session

\* ---------------------------------------------------- UnitOfWork.repository
\* self._repositories: per entity type no binding yet, a binding made from
\* the session of the current activation, or one made from an earlier one
NoRepos == [m \in Models |-> "none"]

\* __enter__ replaces self._session and leaves self._repositories alone, so
\* every binding made so far stays on the session it was made from
AfterEnter(repos) ==
    [m \in Models |-> IF repos[m] = "none" THEN "none" ELSE "stale"]

\* repository(model): the cached binding, or a new one on self.session
RepositoryFor(repos, m) ==
    [repos EXCEPT ![m] = IF @ = "none" THEN "cur" ELSE @]

\* (variant: the adapter's transaction() written like the provider's)
UowBindingTransactionCommits(S, d, body) ==
    IF body = "ok"
    THEN [s |-> SessCommit(S, TRUE), db |-> CommitDb(S, d, TRUE)]
    ELSE [s |-> SessRollback(S, TRUE), db |-> d]

\* _UoWSessionProvider.transaction(): yields the captured session and does
\* nothing when the block is over, however it ended
UowBindingTransaction(S, d, body) == [s |-> S, db |-> d]

\* the statements of an auto-transaction method of a binding for type m: a
\* row of another type is no row to it
UowRepoBody(m, op, S, d, i, v, nid) ==
    IF op \in {"update", "delete"} /\ View(S, d)[i] \notin ValsOf(m)
    THEN SessStmt(S)
    ELSE RepoBody(op, S, d, i, v, nid)

\* the outcomes drawn for commit and rollback are read only where the exit
\* reaches the call; an outcome that is never read is drawn as success
Consulted(body, cOk, rOk) ==
    /\ body # "ok" => cOk
    /\ (body = "base" \/ (body = "ok" /\ cOk)) => rOk

\* ------------------------------------------- Repository / OrmOperations
\* an id a caller may pass: every id of the table and one that names no row
ProbeIds == 1 .. MaxId + 1

\* a payload the configured validator rejects
Invalid == "bad"

\* what a method hands back: None, a detached instance with its identifier
\* and field value, a bool, a list (by its length), or nothing: it raised
None == [id |-> 0, val |-> "None"]
Snapshot(i, v) == [id |-> i, val |-> v]
Bool(b) == [id |-> 0, val |-> IF b THEN "True" ELSE "False"]
ListOf(n) == [id |-> n, val |-> "list"]
Raised == [id |-> 0, val |-> "raised"]

\* self._query_cache, keyed by id: the instance cached, or no entry
NoEntry == "NoEntry"
EmptyCache == [i \in Ids |-> NoEntry]

\* Repository(model, provider), or OrmOperations(model, provider,
\* validator_model, cache_enabled)
OpsConfigs ==
    {[cls |-> "Repository", cache_enabled |-> FALSE, validator |-> FALSE]}
    \cup {[cls |-> "OrmOperations", cache_enabled |-> c, validator |-> w] :
             c \in BOOLEAN, w \in BOOLEAN}

\* the call served last: its method and id, what the caller received (out,
\* ret), whether get_by_id answered from the cache (hit), the cache entries
\* the call removed (cleared), and whether a row had been added to a
\* session when the call ended (added); for a bulk call also the list it was
\* given (args) and the instances it returned (insts)
NoCall == [op |-> "none", i |-> 0, out |-> "none", ret |-> None,
           hit |-> FALSE, cleared |-> {}, added |-> FALSE, args |-> <<>>,
           insts |-> <<>>]
NoOps == [cfg |-> [cls |-> "none", cache_enabled |-> FALSE,
                   validator |-> FALSE],
          cache |-> EmptyCache, last |-> NoCall]

OpsOps == {"get_by_id", "create", "update", "delete", "exists"}

\* _validate_data: raises ValueError when a validator is configured and
\* rejects the payload, and hands the payload on otherwise
ValidateData(cfg, v) ==
    IF cfg.validator /\ v = Invalid THEN "ValueError" ELSE "ok"

\* (variant: create without its flush and refresh, so no identifier yet)
RepoReturnUnflushed(op, S, d, i, v, nid) ==
    CASE op = "get_by_id" ->
           IF i \in Present(S, d) THEN Snapshot(i, View(S, d)[i]) ELSE None
      [] op = "create" -> Snapshot(0, v)
      [] op = "update" -> IF i \in Present(S, d) THEN Snapshot(i, v) ELSE None
      [] op = "delete" -> Bool(i \in Present(S, d))
      [] op = "exists" -> Bool(i \in Present(S, d))
      [] op = "count" -> ListOf(Cardinality(Present(S, d)))
      [] OTHER -> ListOf(Cardinality(Present(S, d)))

\* what the body of each auto-transaction method returns, S and d being
\* the session and storage the body started from
RepoReturn(op, S, d, i, v, nid) ==
    CASE op = "get_by_id" ->
           IF i \in Present(S, d) THEN Snapshot(i, View(S, d)[i]) ELSE None
      [] op = "create" -> Snapshot(nid, v)
      [] op = "update" -> IF i \in Present(S, d) THEN Snapshot(i, v) ELSE None
      [] op = "delete" -> Bool(i \in Present(S, d))
      [] op = "exists" -> Bool(i \in Present(S, d))
      [] op = "count" -> ListOf(Cardinality(Present(S, d)))
      [] OTHER -> ListOf(Cardinality(Present(S, d)))

\* Repository.<op>: the body inside transaction() on a session of its own
RepositoryMethod(d, nid, op, i, v, body, reach, cOk, rOk) ==
    LET S0 == Use(NewSession("repo"))
        b == IF reach THEN RepoBody(op, S0, d, i, v, nid) ELSE S0
        r == TransactionExit(b, d, body, cOk, rOk)
    IN  [s |-> r.s, db |-> r.db, out |-> r.out,
         ret |-> IF r.out = "ok" THEN RepoReturn(op, S0, d, i, v, nid)
                 ELSE Raised]

\* ------------------------- AsyncSessionProvider / AsyncRepository
\* (variant: the commit also runs when the body was cancelled)
AsyncTxTryCommitsCancelled(S, d, body, cOk) ==
    IF body # "exc"
    THEN [s |-> SessCommit(S, cOk), db |-> CommitDb(S, d, cOk),
          err |-> IF body = "base" THEN "bodyBase"
                  ELSE IF cOk THEN "none" ELSE "commitErr"]
    ELSE [s |-> S, db |-> d, err |-> "bodyExc"]

\* the try block after the yield: await session.commit() when the body did
\* not raise
AsyncTxTry(S, d, body, cOk) ==
    IF body = "ok"
    THEN [s |-> SessCommit(S, cOk), db |-> CommitDb(S, d, cOk),
          err |-> IF cOk THEN "none" ELSE "commitErr"]
    ELSE [s |-> S, db |-> d,
          err |-> IF body = "exc" THEN "bodyExc" ELSE "bodyBase"]

\* except Exception
AsyncTxCatches(err) == err \in {"bodyExc", "commitErr"}

\* (variant: the rollback coroutine created but not awaited)
AsyncTxExceptNotAwaited(S, d, err, rOk) == [s |-> S, db |-> d, err |-> err]

\* the handler: await session.rollback(), then raise
AsyncTxExcept(S, d, err, rOk) ==
    [s |-> SessRollback(S, rOk), db |-> d,
     err |-> IF rOk THEN err ELSE "rollbackErr"]

\* finally: await session.close()
AsyncTxFinally(S) == SessClose(S)

\* the whole exit of the async context manager
AsyncTransactionExit(S, d, body, cOk, rOk) ==
    LET t == AsyncTxTry(Exiting(S), d, body, cOk)
        h == IF AsyncTxCatches(t.err)
             THEN AsyncTxExcept(t.s, t.db, t.err, rOk) ELSE t
        o == IF h.err = "none" THEN "ok" ELSE h.err
    IN  [s |-> Exited(AsyncTxFinally(h.s), body, o), db |-> h.db, out |-> o]

\* the statements inside the async with block of each AsyncRepository method
AsyncRepoBody(op, S, d, i, v, nid) ==
    CASE op = "create" -> SessPut(S, nid, v)
      [] op = "update" ->
           IF i \in Present(S, d) THEN SessPut(S, i, v) ELSE SessStmt(S)
      [] op = "delete" ->
           IF i \in Present(S, d) THEN SessDelete(S, i) ELSE SessStmt(S)
      [] OTHER -> SessStmt(S)

\* what the body of each AsyncRepository method returns
AsyncRepoReturn(op, S, d, i, v, nid) ==
    CASE op = "get_by_id" ->
           IF i \in Present(S, d) THEN Snapshot(i, View(S, d)[i]) ELSE None
      [] op = "create" -> Snapshot(nid, v)
      [] op = "update" -> IF i \in Present(S, d) THEN Snapshot(i, v) ELSE None
      [] op = "delete" -> Bool(i \in Present(S, d))
      [] OTHER -> None

\* AsyncRepository.<op>: the body inside the provider's transaction()
AsyncRepositoryMethod(d, nid, op, i, v, body, reach, cOk, rOk) ==
    LET S0 == Use(NewSession("repo"))
        b == IF reach THEN AsyncRepoBody(op, S0, d, i, v, nid) ELSE S0
        r == AsyncTransactionExit(b, d, body, cOk, rOk)
    IN  [s |-> r.s, db |-> r.db, out |-> r.out,
         ret |-> IF r.out = "ok" THEN AsyncRepoReturn(op, S0, d, i, v, nid)
                 ELSE Raised]

\* a Repository (sync) and an AsyncRepository (async) on stores of their
\* own: each one's committed rows, next identifier, and the session, the
\* outcome and the value of the call it served last; op and i are that
\* call's method and id
CrudOps == {"get_by_id", "create", "update", "delete"}
NoSide == [db |-> EmptyDb, nid |-> 1, s |-> NoSession, out |-> "none",
           ret |-> None]
NoAio == [sync |-> NoSide, async |-> NoSide, op |-> "none", i |-> 0]

\* (variant: delete without its clear_cache)
CacheAfterDeleteKeeps(cfg, cache, op, i, out, ret) ==
    IF ~cfg.cache_enabled \/ out # "ok" THEN cache
    ELSE CASE op \in {"create", "update"} -> EmptyCache
           [] op = "delete" -> cache
           [] op = "get_by_id" ->
                IF ret # None /\ i \in Ids
                THEN [cache EXCEPT ![i] = ret.val] ELSE cache
           [] OTHER -> cache

\* (variant: update clearing the cache only when it found the row)
CacheAfterUpdateIfFound(cfg, cache, op, i, out, ret) ==
    IF ~cfg.cache_enabled \/ out # "ok" THEN cache
    ELSE CASE op = "create" -> EmptyCache
           [] op = "update" -> IF ret # None THEN EmptyCache ELSE cache
           [] op = "delete" -> IF ret = Bool(TRUE) THEN EmptyCache ELSE cache
           [] op = "get_by_id" ->
                IF ret # None /\ i \in Ids
                THEN [cache EXCEPT ![i] = ret.val] ELSE cache
           [] OTHER -> cache

\* what the OrmOperations overrides do to the cache once super() returned:
\* create and update clear it, delete clears it when it deleted a row,
\* get_by_id stores what it found
CacheAfter(cfg, cache, op, i, out, ret) ==
    IF ~cfg.cache_enabled \/ out # "ok" THEN cache
    ELSE CASE op \in {"create", "update"} -> EmptyCache
           [] op = "delete" -> IF ret = Bool(TRUE) THEN EmptyCache ELSE cache
           [] op = "get_by_id" ->
                IF ret # None /\ i \in Ids
                THEN [cache EXCEPT ![i] = ret.val] ELSE cache
           [] OTHER -> cache

Cleared(cache, after) ==
    {j \in Ids : cache[j] # NoEntry /\ after[j] = NoEntry}

\* one call of <op> on the instance: validation first, then the cache, then
\* the Repository method, then the cache again.  s is the session the call
\* used, NoSession when it used none.
OpsMethod(cfg, cache, d, nid, op, i, v, body, reach, cOk, rOk) ==
    IF op \in {"create", "update"} /\ ValidateData(cfg, v) = "ValueError"
    THEN [s |-> NoSession, db |-> d, cache |-> cache, nid |-> nid,
          last |-> [op |-> op, i |-> i, out |-> "ValueError",
                    ret |-> Raised, hit |-> FALSE, cleared |-> {},
                    added |-> FALSE, args |-> <<>>,
                    insts |-> <<>>]]
    ELSE IF op = "get_by_id" /\ cfg.cache_enabled /\ i \in Ids
            /\ cache[i] # NoEntry
    THEN [s |-> NoSession, db |-> d, cache |-> cache, nid |-> nid,
          last |-> [op |-> op, i |-> i, out |-> "ok",
                    ret |-> Snapshot(i, cache[i]), hit |-> TRUE,
                    cleared |-> {}, added |-> FALSE, args |-> <<>>,
                    insts |-> <<>>]]
    ELSE LET r == RepositoryMethod(d, nid, op, i, v, body, reach, cOk, rOk)
             c == CacheAfter(cfg, cache, op, i, r.out, r.ret)
         IN  [s |-> r.s, db |-> r.db, cache |-> c,
              nid |-> IF op = "create" /\ reach THEN nid + 1 ELSE nid,
              last |-> [op |-> op, i |-> i, out |-> r.out, ret |-> r.ret,
                        hit |-> FALSE, cleared |-> Cleared(cache, c),
                        added |-> r.s.dirty, args |-> <<>>,
                    insts |-> <<>>]]

\* whether the call reaches the Repository method, where the outcomes of
\* the body, of commit and of rollback are read
ReachesSuper(cfg, cache, op, i, v) ==
    /\ ~(op \in {"create", "update"} /\ ValidateData(cfg, v) = "ValueError")
    /\ ~(op = "get_by_id" /\ cfg.cache_enabled /\ i \in Ids
         /\ cache[i] # NoEntry)

\* the payloads a caller passes: rows' field values, and one the validator
\* rejects when a validator is configured
Payloads(cfg) == IF cfg.validator THEN Vals \cup {Invalid} ELSE Vals
ItemLists(cfg) == UNION {[1 .. n -> Payloads(cfg)] : n \in 0 .. MaxItems}

\* session.add_all(instances): the rows take the next identifiers in order
AddAll(S, chunk, nid) ==
    [SessStmt(S) EXCEPT
       !.pend = [j \in Ids |->
                   IF j \in nid .. nid + Len(chunk) - 1
                   THEN chunk[j - nid + 1] ELSE S.pend[j]]]

\* session.refresh(instance) on each instance after the flush: instance k
\* of the list carries the identifier the flush gave it, first being the
\* first of them
Refreshed(items, first) ==
    [k \in 1 .. Len(items) |-> Snapshot(first + k - 1, items[k])]

\* an instance that was neither refreshed nor expunged before the exit: the
\* commit expires its attributes (expire_on_commit=True) and the close
\* detaches it, so it carries no loaded field value
Expired == [id |-> 0, val |-> "expired"]
LeftAttached(items) == [k \in 1 .. Len(items) |-> Expired]

Rejected(cfg, chunk) ==
    \E j \in 1 .. Len(chunk) : ValidateData(cfg, chunk[j]) = "ValueError"

\* (variant: bulk_create leaving out the items its validator rejects)
BulkCreateBodySkipsInvalid(S, items, cfg, fault, nid) ==
    LET Valid(v) == ValidateData(cfg, v) = "ok"
        kept == SelectSeq(items, Valid)
    IN  [s |-> AddAll(S, kept, nid),
         err |-> IF fault = 1 THEN "bodyExc" ELSE "none",
         nid |-> nid + Len(kept),
         insts |-> IF fault = 1 THEN <<>> ELSE Refreshed(kept, nid)]

\* bulk_create inside its with block: validate every item, build the
\* instances, add them all, flush once (fault = 1: the flush raises)
BulkCreateBody(S, items, cfg, fault, nid) ==
    IF Rejected(cfg, items)
    THEN [s |-> S, err |-> "ValueError", nid |-> nid, insts |-> <<>>]
    ELSE [s |-> AddAll(S, items, nid),
          err |-> IF fault = 1 THEN "bodyExc" ELSE "none",
          nid |-> nid + Len(items),
          insts |-> IF fault = 1 THEN <<>> ELSE Refreshed(items, nid)]

\* bulk_create_optimized inside its with block, from batch k on: for each
\* batch of size items validate and build its instances, add them, flush
\* (fault = k: the flush of batch k raises); the instances are returned as
\* the session leaves them
RECURSIVE BulkBatches(_, _, _, _, _, _, _)
BulkBatches(S, items, k, size, cfg, fault, nid) ==
    LET first == (k - 1) * size + 1
        last == IF k * size < Len(items) THEN k * size ELSE Len(items)
        chunk == SubSeq(items, first, last)
    IN  IF first > Len(items)
        THEN [s |-> S, err |-> "none", nid |-> nid,
              insts |-> LeftAttached(items)]
        ELSE IF Rejected(cfg, chunk)
        THEN [s |-> S, err |-> "ValueError", nid |-> nid, insts |-> <<>>]
        ELSE IF fault = k
        THEN [s |-> AddAll(S, chunk, nid), err |-> "bodyExc",
              nid |-> nid + Len(chunk), insts |-> <<>>]
        ELSE BulkBatches(AddAll(S, chunk, nid), items, k + 1, size, cfg,
                         fault, nid + Len(chunk))

BulkBody(optimized, S, items, size, cfg, fault, nid) ==
    IF optimized THEN BulkBatches(S, items, 1, size, cfg, fault, nid)
    ELSE BulkCreateBody(S, items, cfg, fault, nid)

\* the batches bulk_create_optimized makes of items; bulk_create makes one
Batches(optimized, items, size) ==
    IF optimized THEN (Len(items) + size - 1) \div size ELSE 1

\* (variant: the batches flushed so far are committed although a later
\* batch failed)
BulkMethodCommitsFlushed(cfg, cache, d, optimized, items, b, cOk, rOk) ==
    LET r == TransactionExit(b.s, d, "ok", cOk, rOk)
        out == IF b.err # "none" THEN b.err ELSE r.out
    IN  [s |-> r.s, db |-> r.db, cache |-> cache, nid |-> b.nid,
         last |-> [op |-> IF optimized THEN "bulk_create_optimized"
                          ELSE "bulk_create",
                   i |-> 0, out |-> out,
                   ret |-> IF out = "ok" THEN ListOf(Len(items)) ELSE Raised,
                   hit |-> FALSE, cleared |-> {},
                   added |-> r.s.dirty, args |-> items,
                   insts |-> IF out = "ok" THEN b.insts ELSE <<>>]]

\* bulk_create / bulk_create_optimized: the body (b: where it left the
\* session, and how it ended) inside transaction() on a session of its own;
\* bulk_create clears the cache at the end of its body,
\* bulk_create_optimized after the block, when the commit went through
BulkMethod(cfg, cache, d, optimized, items, b, cOk, rOk) ==
    LET r == TransactionExit(b.s, d, IF b.err = "none" THEN "ok" ELSE "exc",
                             cOk, rOk)
        out == IF r.out = "bodyExc" THEN b.err ELSE r.out
        c == IF cfg.cache_enabled
                /\ (IF optimized THEN out = "ok" ELSE b.err = "none")
             THEN EmptyCache ELSE cache
    IN  [s |-> r.s, db |-> r.db, cache |-> c, nid |-> b.nid,
         last |-> [op |-> IF optimized THEN "bulk_create_optimized"
                          ELSE "bulk_create",
                   i |-> 0, out |-> out,
                   ret |-> IF out = "ok" THEN ListOf(Len(items)) ELSE Raised,
                   hit |-> FALSE, cleared |-> Cleared(cache, c),
                   added |-> r.s.dirty, args |-> items,
                   insts |-> IF out = "ok" THEN b.insts ELSE <<>>]]

\* ------------------------------------------------ OrmOperations.bulk_update
\* an int a method returns
IntOf(n) == [id |-> n, val |-> "int"]

\* the dicts a caller passes: with or without the id key (NoKey: without),
\* the id naming a row or none, and with a new field value or no other key
NoKey == 0
UpdateItems == [id : {NoKey} \cup ProbeIds, val : Vals \cup {Keep}]
UpdateLists == UNION {[1 .. n -> UpdateItems] : n \in 0 .. MaxItems}

\* (variant: counting every item that carries the id key)
RECURSIVE BulkUpdateLoopCountsKeys(_, _, _, _, _, _)
BulkUpdateLoopCountsKeys(S, d, items, k, fault, count) ==
    IF k > Len(items) THEN [s |-> S, err |-> "none", count |-> count]
    ELSE IF items[k].id = NoKey
    THEN BulkUpdateLoopCountsKeys(S, d, items, k + 1, fault, count)
    ELSE IF fault = k
    THEN [s |-> SessStmt(S), err |-> "bodyExc", count |-> count]
    ELSE IF items[k].id \in Present(S, d)
    THEN BulkUpdateLoopCountsKeys(
             IF items[k].val = Keep THEN SessStmt(S)
             ELSE SessPut(S, items[k].id, items[k].val),
             d, items, k + 1, fault, count + 1)
    ELSE BulkUpdateLoopCountsKeys(SessStmt(S), d, items, k + 1, fault,
                                  count + 1)

\* the loop of bulk_update from item k on: an item without the id key is
\* skipped; session.get looks the id up (fault = k: that lookup raises);
\* a row that is found takes the item's other fields and is counted
RECURSIVE BulkUpdateLoop(_, _, _, _, _, _)
BulkUpdateLoop(S, d, items, k, fault, count) ==
    IF k > Len(items) THEN [s |-> S, err |-> "none", count |-> count]
    ELSE IF items[k].id = NoKey
    THEN BulkUpdateLoop(S, d, items, k + 1, fault, count)
    ELSE IF fault = k
    THEN [s |-> SessStmt(S), err |-> "bodyExc", count |-> count]
    ELSE IF items[k].id \in Present(S, d)
    THEN BulkUpdateLoop(
             IF items[k].val = Keep THEN SessStmt(S)
             ELSE SessPut(S, items[k].id, items[k].val),
             d, items, k + 1, fault, count + 1)
    ELSE BulkUpdateLoop(SessStmt(S), d, items, k + 1, fault, count)

\* bulk_update: the loop inside transaction() on a session of its own, then
\* clear_cache when the cache is enabled and a row was updated
BulkUpdateMethod(cfg, cache, d, items, b, cOk, rOk) ==
    LET r == TransactionExit(b.s, d, IF b.err = "none" THEN "ok" ELSE "exc",
                             cOk, rOk)
        c == IF cfg.cache_enabled /\ r.out = "ok" /\ b.count > 0
             THEN EmptyCache ELSE cache
    IN  [s |-> r.s, db |-> r.db, cache |-> c,
         last |-> [op |-> "bulk_update", i |-> 0, out |-> r.out,
                   ret |-> IF r.out = "ok" THEN IntOf(b.count) ELSE Raised,
                   hit |-> FALSE, cleared |-> Cleared(cache, c),
                   added |-> r.s.dirty, args |-> items,
                   insts |-> <<>>]]

\* ----------------------------------------- OrmOperations.execute_raw_sql
\* the statements a caller passes: a SELECT, or an UPDATE or a DELETE of the
\* row with id i
RawSql == {"select", "update", "delete"}

\* what session.execute returns
ResultProxy == [id |-> 0, val |-> "result"]

\* session.execute(text(sql), params)
ExecuteRawSqlBody(S, d, sql, i, v) ==
    CASE sql = "update" ->
           IF i \in Present(S, d) THEN SessPut(S, i, v) ELSE SessStmt(S)
      [] sql = "delete" ->
           IF i \in Present(S, d) THEN SessDelete(S, i) ELSE SessStmt(S)
      [] OTHER -> SessStmt(S)

\* execute_raw_sql: the statement inside transaction() on a session of its
\* own; the method does nothing else
ExecuteRawSql(cfg, cache, d, sql, i, v, cOk, rOk) ==
    LET b == ExecuteRawSqlBody(Use(NewSession("repo")), d, sql, i, v)
        r == TransactionExit(b, d, "ok", cOk, rOk)
    IN  [s |-> r.s, db |-> r.db, cache |-> cache,
         last |-> [op |-> "execute_raw_sql", i |-> i, out |-> r.out,
                   ret |-> IF r.out = "ok" THEN ResultProxy ELSE Raised,
                   hit |-> FALSE, cleared |-> {}, added |-> r.s.dirty,
                   args |-> <<>>, insts |-> <<>>]]

\* update_in_session / delete_in_session called on the instance with the
\* session of the caller's own transaction() block, which then ends
\* normally: the inherited Repository method runs its statements on that
\* session and the exit commits them
InSessionThenCommit(cfg, cache, d, op, i, v, nid, cOk, rOk) ==
    LET b == InSessionBody(op, Use(NewSession("tx")), d, i, v, nid)
        r == TransactionExit(b.s, b.db, "ok", cOk, rOk)
    IN  [s |-> r.s, db |-> r.db, cache |-> cache,
         last |-> [op |-> op, i |-> i, out |-> r.out,
                   ret |-> IF r.out # "ok" THEN Raised
                           ELSE IF op = "delete_in_session"
                           THEN Bool(i \in Present(b.s, d) \/ d[i] # NoRow)
                           ELSE IF d[i] # NoRow THEN Snapshot(i, v)
                           ELSE None,
                   hit |-> FALSE, cleared |-> {}, added |-> r.s.dirty,
                   args |-> <<>>, insts |-> <<>>]]

\* --------------------------------------------- OrmOperations.get_paginated
\* A table is the sequence of its rows' field values in the order the engine
\* scans them, a row's identifier being its place.  The engine is taken to
\* return the rows of one query in one order on every call: rows the
\* ORDER BY does not separate stay in scan order.
Tables == UNION {[1 .. n -> Vals] : n \in 0 .. MaxRows}
RowsOf(table) == [k \in 1 .. Len(table) |-> Snapshot(k, table[k])]

\* fetch.filter_by(**where_dict), when where_dict is given
FilterBy(rows, where) ==
    LET Matches(r) == where = "any" \/ r.val = where
    IN  SelectSeq(rows, Matches)

\* the collation of the field values
Rank(v) == IF v = "a" THEN 1 ELSE 2
SortKey(r, by) == IF by = "id" THEN r.id ELSE Rank(r.val)
Precedes(x, y, by, dir) ==
    IF dir = "desc" THEN SortKey(x, by) > SortKey(y, by)
    ELSE SortKey(x, by) < SortKey(y, by)

RECURSIVE Insert(_, _, _, _)
Insert(x, s, by, dir) ==
    IF s = <<>> THEN <<x>>
    ELSE IF Precedes(x, Head(s), by, dir) THEN <<x>> \o s
    ELSE <<Head(s)>> \o Insert(x, Tail(s), by, dir)

\* fetch.order_by(order_field) / fetch.order_by(order_field.desc()), when
\* order_by is given
RECURSIVE OrderBy(_, _, _)
OrderBy(rows, by, dir) ==
    IF by = "none" \/ rows = <<>> THEN rows
    ELSE Insert(rows[Len(rows)],
                OrderBy(SubSeq(rows, 1, Len(rows) - 1), by, dir), by, dir)

\* fetch.offset(k) and fetch.limit(k)
Offset(rows, k) == SubSeq(rows, k + 1, Len(rows))
Limit(rows, k) == SubSeq(rows, 1, IF k < Len(rows) THEN k ELSE Len(rows))

\* the query without offset and limit: the unpaginated result
QueryAllRows(table, where, by, dir) ==
    OrderBy(FilterBy(RowsOf(table), where), by, dir)

\* (variant: page numbers taken as starting at 0)
GetPaginatedZeroBased(table, p, size, where, by, dir) ==
    LET query == FilterBy(RowsOf(table), where)
        total_count == Len(query)
        ordered == OrderBy(query, by, dir)
        offset == p * size
    IN  [items |-> Limit(Offset(ordered, offset), size),
         total |-> total_count]

\* get_paginated(page, page_size, where_dict, order_by, order_dir): count
\* under the filter, order, then offset (page - 1) * page_size and limit
\* page_size
GetPaginated(table, p, size, where, by, dir) ==
    LET query == FilterBy(RowsOf(table), where)
        total_count == Len(query)
        ordered == OrderBy(query, by, dir)
        offset == (p - 1) * size
    IN  [items |-> Limit(Offset(ordered, offset), size),
         total |-> total_count]

\* ceil(n / s)
PageCount(n, s) == (n + s - 1) \div s

\* ------------------------- Repository.get_all / filter_by_conditions
\* A table of rows with two fields; as above the engine returns the rows of
\* a query without ORDER BY in scan order.
Fields == {"name", "status"}
Rows2 == [name : Vals, status : Vals]
Tables2 == UNION {[1 .. n -> Rows2] : n \in 0 .. MaxRows}
Records(table) ==
    [k \in 1 .. Len(table) |->
        [id |-> k, name |-> table[k].name, status |-> table[k].status]]

\* limit=None / offset=None: the argument left out
NoBound == -1
Bounds == {NoBound} \cup (0 .. MaxRows + 1)

\* Repository.get_all: offset and limit are applied when truthy
GetAll(rows, limit, offset) ==
    LET skipped == IF offset # NoBound /\ offset # 0
                   THEN Offset(rows, offset) ELSE rows
    IN  IF limit # NoBound /\ limit # 0 THEN Limit(skipped, limit)
        ELSE skipped

\* a condition dict: for each field the value asked for, or no such key
Absent == "absent"
Conditions == [Fields -> Vals \cup {Absent}]
ConditionLists == UNION {[1 .. n -> Conditions] : n \in 0 .. MaxConds}

\* and_(*and_conditions): the row equals the dict on every key of the dict
AndGroup(r, c) == \A f \in Fields : c[f] = Absent \/ r[f] = c[f]

\* filter_by_conditions: one AND group per dict that has a key, the groups
\* OR-ed; no filter when the list is empty or no dict has a key; then the
\* limit when one is given
FilterByConditions(rows, conds, limit) ==
    LET HasKey(c) == \E f \in Fields : c[f] # Absent
        or_conditions == SelectSeq(conds, HasKey)
        Matches(r) ==
            \E g \in 1 .. Len(or_conditions) : AndGroup(r, or_conditions[g])
        found == IF conds # <<>> /\ or_conditions # <<>>
                 THEN SelectSeq(rows, Matches) ELSE rows
    IN  IF limit # NoBound THEN Limit(found, limit) ELSE found

\* one query on a table: the table, the method called and its arguments,
\* and the rows it returned
NoFetch == [table |-> <<>>, op |-> "none", conds |-> <<>>,
            limit |-> NoBound, offset |-> NoBound, rows |-> <<>>]

\* --------------------------- ConnectionManager / AsyncConnectionManager
\* how engine.connect(), conn.execute() and the release of the connection
\* at the end of the with block can end: fine, with an Exception, or with a
\* BaseException that is no Exception (KeyboardInterrupt, a cancelled task)
EngineOutcomes == {"ok", "exc", "base"}

\* what leaves the with block: a failing connect leaves at once; the
\* connection is released whether execute raised or not, and a failing
\* release takes the place of what execute raised
PingBlock(connect, execute, release) ==
    IF connect # "ok" THEN connect
    ELSE IF release # "ok" THEN release
    ELSE execute

\* (variant: a bare except)
PingCatchesEverything(err) == err # "ok"

\* except Exception
PingCatches(err) == err = "exc"

\* ConnectionManager.ping
Ping(connect, execute, release) ==
    LET err == PingBlock(connect, execute, release)
    IN  IF err = "ok" THEN "True"
        ELSE IF PingCatches(err) THEN "False"
        ELSE "raised"

\* AsyncConnectionManager.ping
AsyncPing(connect, execute, release) ==
    LET err == PingBlock(connect, execute, release)
    IN  IF err = "ok" THEN "True"
        ELSE IF PingCatches(err) THEN "False"
        ELSE "raised"

\* a connection manager of either kind and the pings made on it so far:
\* how connect, execute and release ended, and what the caller received
NoEng == [kind |-> "sync", pings |-> <<>>]

\* ------------------------------------------------- concurrent callers
\* the threads (sync) or tasks (async) of the program
Threads == 1 .. MaxThreads

\* (variant: a factory that keeps handing out its first Session object)
SessionMakerShared(made) == 1

\* self._session_factory(): sessionmaker builds a new Session object on
\* every call; made is the number of Session objects built so far
SessionMaker(made) == made + 1

\* scoped_session(factory) keys its registry by the calling thread;
\* async_scoped_session(factory, scopefunc=lambda: 0) by scopefunc()
ScopeKey(kind, t) == IF kind = "sync" THEN t ELSE 0

\* where a call stands: 0 not in a call, 1 holding the session its
\* transaction() yielded, 2 after its first statement, 3 after its second,
\* 4 after the commit or rollback of the exit, before the close
\* sess: the session each caller holds (0: none); calls: the calls each has
\* begun; users: per Session object the calls <<t, n>> that invoked
\* anything on it; interleaved: a caller invoked something on a session
\* between two invocations another caller's call made on it; reg: the
\* scoped registry; got: the sessions create_scoped_session gave each caller
NoConc == [mode |-> "none", kind |-> "sync",
           pc |-> [t \in Threads |-> 0], sess |-> [t \in Threads |-> 0],
           calls |-> [t \in Threads |-> 0], made |-> 0, users |-> <<>>,
           interleaved |-> FALSE,
           reg |-> [k \in {0} \cup Threads |-> 0],
           got |-> [t \in Threads |-> {}]]

\* another caller is between two of its invocations on session sid
Between(c, t, sid) ==
    \E u \in Threads \ {t} :
        /\ c.sess[u] = sid
        /\ \/ c.pc[u] = 2
           \/ c.mode = "provider" /\ c.pc[u] \in {3, 4}

\* caller t invokes something on the session it holds
Invoke(c, t) ==
    [c EXCEPT !.users[c.sess[t]] = @ \cup {<<t, c.calls[t]>>},
              !.interleaved = @ \/ Between(c, t, c.sess[t])]

\* one run over the pages of a table: the table and the arguments that stay
\* fixed, the page to fetch next, the items received so far in order, and
\* the totals the calls reported
NoPage == [table |-> <<>>, size |-> 1, where |-> "any", by |-> "none",
           dir |-> "asc", p |-> 1, acc |-> <<>>, totals |-> {}]

\* -------------------------------------------------------------- the state
\* ------------------------ OrmOperations: get_by_id concurrent with update
\* One row, id 1, its committed value row; the instance's cache entry for
\* it; the payload of the update; each call's position; what get_by_id read
\* (seen) and returned (got), how update ended (updOut); the steps taken, in
\* order (trace); and what a get_by_id made after both returned (next)
NoRace == [row |-> NoRow, cache |-> NoEntry, data |-> "a",
           getPc |-> "none", updPc |-> "none", seen |-> NoEntry,
           got |-> None, updOut |-> "none", trace |-> <<>>, next |-> None]

\* (variant: update without its clear_cache)
ClearCacheKeeps(cache) == cache

\* clear_cache(): self._query_cache.clear()
ClearCache(cache) == NoEntry

\* get_by_id after super() returned: a truthy result is stored
StoreResult(cache, seen) == IF seen # NoRow THEN seen ELSE cache

\* what get_by_id hands back for a value read or cached
Found(v) == IF v = NoRow THEN None ELSE Snapshot(1, v)

\* ------------------------------------------- table_utils.generate_model_file
\* the characters a table name is made of: a letter, a digit, the
\* underscore, a character a shell or SQL gives a meaning to, and a newline
Chars == {"a", "7", "_", ";", "nl"}
Names == UNION {[1 .. n -> Chars] : n \in 0 .. MaxNameLen}

\* [a-zA-Z0-9_]
WordChar(c) == c \in {"a", "7", "_"}
AllWord(s) == Len(s) > 0 /\ \A k \in 1 .. Len(s) : WordChar(s[k])

\* re.match(r'^[a-zA-Z0-9_]+$', s): without re.MULTILINE, $ matches at the
\* end of the string and also just before a newline that ends the string
ReMatch(s) ==
    \/ AllWord(s)
    \/ /\ Len(s) > 1
       /\ s[Len(s)] = "nl"
       /\ AllWord(SubSeq(s, 1, Len(s) - 1))

\* validate_sql_identifier: raises ValueError, or returns
ValidateSqlIdentifier(s) ==
    IF s = <<>> \/ ~ReMatch(s) THEN "ValueError" ELSE "ok"

\* how the environment answers: connect_str(db_key) finds the URL or
\* raises; sqlacodegen is missing, or runs and exits with 0 or with 1
UrlOutcomes == {"found", "KeyError"}
ToolOutcomes == {"missing", "exit0", "exit1"}

\* the try block of generate_model_file, up to the error that leaves it
GenerateTry(name, url, tool) ==
    IF ValidateSqlIdentifier(name) = "ValueError"
    THEN [err |-> "ValueError", ran |-> FALSE, ret |-> None]
    ELSE IF url = "KeyError"
    THEN [err |-> "KeyError", ran |-> FALSE, ret |-> None]
    ELSE IF tool = "missing"
    THEN [err |-> "FileNotFoundError", ran |-> FALSE, ret |-> None]
    ELSE [err |-> "none", ran |-> TRUE,
          ret |-> IntOf(IF tool = "exit0" THEN 0 ELSE 1)]

\* generate_model_file: the try block, then its handlers -- except
\* FileNotFoundError raises a FileNotFoundError, except Exception raises an
\* Exception made from the message of the one caught
GenerateModelFile(name, url, tool) ==
    LET r == GenerateTry(name, url, tool)
    IN  [op |-> "generate_model_file", name |-> name,
         raised |-> CASE r.err = "none" -> "none"
                      [] r.err = "FileNotFoundError" -> "FileNotFoundError"
                      [] OTHER -> "Exception",
         ran |-> r.ran, ret |-> IF r.err = "none" THEN r.ret ELSE Raised]

NoGen == [op |-> "none", name |-> <<>>, raised |-> "none", ran |-> FALSE,
          ret |-> None]

Init ==
    /\ scope \in {"provider", "unit_of_work"}
    /\ live = EmptyBag
    /\ done = NoSession
    /\ db = EmptyDb
    /\ nextId = 1
    /\ uow = [session |-> NoSession, depth |-> 0, leaked |-> FALSE,
              repos |-> NoRepos, raised |-> FALSE]
    /\ ops = NoOps
    /\ page = NoPage
    /\ fetch = NoFetch
    /\ conc = NoConc
    /\ aio = NoAio
    /\ eng = NoEng
    /\ race = NoRace
    /\ gen = NoGen

One(S) == SetToBag({S})

\* with provider.transaction() as session: entry of an explicit block
TxBegin ==
    /\ scope = "provider"
    /\ BagCardinality(live) < MaxSessions
    /\ LET c == CreateSession(live, "tx")
       IN  live' = c.others (+) One(Use(c.S))
    /\ UNCHANGED <<scope, done, db, nextId, uow, ops, page, fetch, conc, aio, eng, race, gen>>

\* the end of an explicit block's body, and the context manager's exit
TxEnd(S, body, cOk, rOk) ==
    /\ S.kind = "tx"
    /\ S.body = "run"
    /\ Consulted(body, cOk, rOk)
    /\ LET r == TransactionExit(S, db, body, cOk, rOk)
       IN  /\ live' = live (-) One(S)
           /\ done' = r.s
           /\ db' = r.db
    /\ UNCHANGED <<scope, nextId, uow, ops, page, fetch, conc, aio, eng, race, gen>>

\* Repository.<op> on a SessionProvider: one whole auto-transaction call.
\* reach says whether the body's write ran before the body raised; inputs
\* an operation does not read are drawn as one fixed value.
RepoCall(op, i, v, body, reach, cOk, rOk) ==
    /\ scope = "provider"
    /\ BagCardinality(live) < MaxSessions
    /\ op = "create" => nextId <= MaxId
    /\ (body = "ok" \/ op \notin {"create", "update", "delete"}) => reach
    /\ Consulted(body, cOk, rOk)
    /\ op \in {"create", "get_all", "count"} => i = 1
    /\ op \notin {"create", "update"} => v = "a"
    /\ LET c == CreateSession(live, "repo")
           S0 == Use(c.S)
           b == IF reach THEN RepoBody(op, S0, db, i, v, nextId) ELSE S0
           r == TransactionExit(b, db, body, cOk, rOk)
       IN  /\ live' = c.others
           /\ done' = r.s
           /\ db' = r.db
    /\ nextId' = IF op = "create" /\ reach THEN nextId + 1 ELSE nextId
    /\ UNCHANGED <<scope, uow, ops, page, fetch, conc, aio, eng, race, gen>>

\* OrmOperations.advanced_query: builds a Query inside transaction() and
\* returns it; the Query stays bound to the session after the block's exit
OpsAdvancedQuery(body, cOk, rOk) ==
    /\ scope = "provider"
    /\ BagCardinality(live) < MaxSessions
    /\ Consulted(body, cOk, rOk)
    /\ LET c == CreateSession(live, "repo")
           r == TransactionExit(Use(c.S), db, body, cOk, rOk)
       IN  /\ db' = r.db
           /\ IF r.out = "ok"
              THEN /\ live' = c.others (+) One([r.s EXCEPT !.query = TRUE])
                   /\ done' = done
              ELSE /\ live' = c.others
                   /\ done' = r.s
    /\ UNCHANGED <<scope, nextId, uow, ops, page, fetch, conc, aio, eng, race, gen>>

\* query.all() on a Query that advanced_query returned
QueryAll(S) ==
    /\ S.query
    /\ live' = live (-) One(S)
    /\ done' = SessStmt(S)
    /\ UNCHANGED <<scope, db, nextId, uow, ops, page, fetch, conc, aio, eng, race, gen>>

\* Repository.<op>_in_session(..., session), session being the one an
\* explicit block yielded, still in its body
InSessionTx(S, op, i, v) ==
    /\ S.kind = "tx"
    /\ S.body = "run"
    /\ op = "create_in_session" => (nextId <= MaxId /\ i = 1)
    /\ op \notin {"create_in_session", "update_in_session"} => v = "a"
    /\ LET b == InSessionBody(op, S, db, i, v, nextId)
       IN  /\ live' = (live (-) One(S)) (+) One(b.s)
           /\ db' = b.db
    /\ nextId' = IF op = "create_in_session" THEN nextId + 1 ELSE nextId
    /\ UNCHANGED <<scope, done, uow, ops, page, fetch, conc, aio, eng, race, gen>>

\* Repository.<op>_in_session(..., uow.session)
InSessionUow(op, i, v) ==
    /\ UowSessionProperty(uow) # NoSession
    /\ op = "create_in_session" => (nextId <= MaxId /\ i = 1)
    /\ op \notin {"create_in_session", "update_in_session"} => v = "a"
    /\ LET b == InSessionBody(op, UowSessionProperty(uow), db, i, v, nextId)
       IN  /\ uow' = [uow EXCEPT !.session = b.s]
           /\ db' = b.db
    /\ nextId' = IF op = "create_in_session" THEN nextId + 1 ELSE nextId
    /\ UNCHANGED <<scope, live, done, ops, page, fetch, conc, aio, eng, race, gen>>

\* UnitOfWork.__enter__: self._session is replaced by a new session
UowEnter ==
    /\ scope = "unit_of_work"
    /\ uow.depth < MaxDepth
    /\ LET c == CreateSession(live, "uow")
       IN  uow' = [session |-> Use(c.S), depth |-> uow.depth + 1,
                   leaked |-> uow.leaked
                              \/ (uow.session # NoSession
                                  /\ ~uow.session.closed),
                   repos |-> AfterEnter(uow.repos), raised |-> FALSE]
    /\ UNCHANGED <<scope, live, done, db, nextId, ops, page, fetch, conc, aio, eng, race, gen>>

\* UnitOfWork.__exit__(exc_type, ...): exc is what escaped the block
UowExit(exc, cOk, rOk) ==
    /\ uow.depth > 0
    /\ uow.session # NoSession
    /\ IF exc = "ok" THEN rOk ELSE cOk
    /\ LET r == UowExitOp(uow.session, db, exc, cOk, rOk)
       IN  /\ uow' = [uow EXCEPT !.session = r.s, !.depth = @ - 1]
           /\ db' = r.db
    /\ UNCHANGED <<scope, live, done, nextId, ops, page, fetch, conc, aio, eng, race, gen>>

\* UnitOfWork.repository(model); uow.raised notes that the block was left by
\* a binding call raising while a row of another entity type was pending
UowRepository(m) ==
    /\ UowSessionProperty(uow) # NoSession
    /\ uow.repos[m] = "none"
    /\ uow' = [uow EXCEPT !.repos = RepositoryFor(@, m)]
    /\ UNCHANGED <<scope, live, done, db, nextId, ops, page, fetch, conc, aio, eng, race, gen>>

\* uow.repository(m).<op>(...): one auto-transaction call on a binding.  The
\* call runs on the session the binding was made from; when that is not
\* uow.session its writes stay on a session nothing commits.  A call that
\* raises inside an active block leaves the block, whose __exit__ then runs.
UowRepoCall(m, op, i, v, body, reach, rOk) ==
    /\ uow.repos[m] # "none"
    /\ op = "create" => nextId <= MaxId
    /\ (body = "ok" \/ op \notin {"create", "update", "delete"}) => reach
    /\ (body = "ok" \/ uow.depth = 0) => rOk
    /\ op \in {"create", "get_all", "count"} => i = 1
    /\ IF op \in {"create", "update"} THEN v \in ValsOf(m) ELSE v = "a"
    /\ LET S == uow.session
           b == IF reach /\ uow.repos[m] = "cur"
                THEN UowRepoBody(m, op, S, db, i, v, nextId) ELSE S
           t == UowBindingTransaction(b, db, body)
           r == UowExitOp(t.s, t.db, body, TRUE, rOk)
       IN  IF body # "ok" /\ uow.depth > 0
           THEN /\ uow' = [uow EXCEPT !.session = r.s, !.depth = @ - 1,
                                      !.raised = (TypesOf(S) \ {m} # {})]
                /\ db' = r.db
           ELSE /\ uow' = [uow EXCEPT !.session = t.s]
                /\ db' = t.db
    /\ nextId' = IF op = "create" /\ reach THEN nextId + 1 ELSE nextId
    /\ UNCHANGED <<scope, live, done, ops, page, fetch, conc, aio, eng, race, gen>>

\* UnitOfWork.commit()
UowCommit(cOk) ==
    /\ uow.session # NoSession
    /\ uow' = [uow EXCEPT !.session = Manual(@, SessCommit(@, cOk))]
    /\ db' = CommitDb(uow.session, db, cOk)
    /\ UNCHANGED <<scope, live, done, nextId, ops, page, fetch, conc, aio, eng, race, gen>>

\* UnitOfWork.rollback()
UowRollback(rOk) ==
    /\ uow.session # NoSession
    /\ uow' = [uow EXCEPT !.session = Manual(@, SessRollback(@, rOk))]
    /\ UNCHANGED <<scope, live, done, db, nextId, ops, page, fetch, conc, aio, eng, race, gen>>

\* one call of get_by_id, create, update, delete or exists on the
\* Repository or OrmOperations instance
OpsCall(op, i, v, body, reach, cOk, rOk) ==
    /\ scope = "operations"
    /\ op = "create" => i = 1
    /\ IF op \in {"create", "update"} THEN v \in Payloads(ops.cfg)
       ELSE v = "a"
    /\ IF ReachesSuper(ops.cfg, ops.cache, op, i, v)
       THEN /\ op = "create" => nextId <= MaxId
            /\ (body = "ok" \/ op \notin {"create", "update", "delete"})
               => reach
            /\ Consulted(body, cOk, rOk)
       ELSE body = "ok" /\ reach /\ cOk /\ rOk
    /\ \E r \in {OpsMethod(ops.cfg, ops.cache, db, nextId, op, i, v, body,
                          reach, cOk, rOk)} :
           /\ ops' = [ops EXCEPT !.cache = r.cache, !.last = r.last]
           /\ db' = r.db
           /\ nextId' = r.nid
           /\ done' = IF r.s = NoSession THEN done ELSE r.s
    /\ UNCHANGED <<scope, live, uow, page, fetch, conc, aio, eng, race, gen>>

\* one call of bulk_create or bulk_create_optimized on the OrmOperations
\* instance; the flush of batch fault raises (0: none does), and commit and
\* rollback succeed or fail where the exit reaches them
BulkCall(optimized, items, size, fault) ==
    /\ scope = "operations"
    /\ ops.cfg.cls = "OrmOperations"
    /\ ~optimized => size = 1
    /\ fault <= Batches(optimized, items, size)
    /\ \E b \in {BulkBody(optimized, Use(NewSession("repo")), items, size,
                         ops.cfg, fault, nextId)} :
         /\ b.nid <= MaxId + 1 \/ (fault # 0 /\ nextId <= MaxId)
         /\ fault # 0 => b.err = "bodyExc"
         /\ \E cOk \in BOOLEAN, rOk \in BOOLEAN :
              /\ Consulted(IF b.err = "none" THEN "ok" ELSE "exc", cOk, rOk)
              /\ \E r \in {BulkMethod(ops.cfg, ops.cache, db, optimized,
                                      items, b, cOk, rOk)} :
                   /\ ops' = [ops EXCEPT !.cache = r.cache, !.last = r.last]
                   /\ db' = r.db
                   /\ nextId' = r.nid
                   /\ done' = r.s
    /\ UNCHANGED <<scope, live, uow, page, fetch, conc, aio, eng, race, gen>>

\* one get_all call on the table
GetAllCall(limit, offset) ==
    /\ scope = "query"
    /\ fetch.op = "none"
    /\ fetch' = [fetch EXCEPT !.op = "get_all", !.limit = limit,
                              !.offset = offset,
                              !.rows = GetAll(Records(fetch.table), limit,
                                              offset)]
    /\ UNCHANGED <<scope, live, done, db, nextId, uow, ops, page, conc, aio, eng, race, gen>>

\* one filter_by_conditions call on the table
FilterByConditionsCall(conds, limit) ==
    /\ scope = "query"
    /\ fetch.op = "none"
    /\ fetch' = [fetch EXCEPT !.op = "filter_by_conditions",
                              !.conds = conds, !.limit = limit,
                              !.rows = FilterByConditions(
                                           Records(fetch.table), conds,
                                           limit)]
    /\ UNCHANGED <<scope, live, done, db, nextId, uow, ops, page, conc, aio, eng, race, gen>>

\* one call of bulk_update on the OrmOperations instance; the lookup of
\* item fault raises (0: none does)
BulkUpdateCall(items, fault) ==
    /\ scope = "operations"
    /\ ops.cfg.cls = "OrmOperations"
    /\ fault # 0 => fault <= Len(items) /\ items[fault].id # NoKey
    /\ \E b \in {BulkUpdateLoop(Use(NewSession("repo")), db, items, 1, fault,
                               0)} :
         \E cOk \in BOOLEAN, rOk \in BOOLEAN :
              /\ Consulted(IF b.err = "none" THEN "ok" ELSE "exc", cOk, rOk)
              /\ \E r \in {BulkUpdateMethod(ops.cfg, ops.cache, db, items, b,
                                            cOk, rOk)} :
                   /\ ops' = [ops EXCEPT !.cache = r.cache, !.last = r.last]
                   /\ db' = r.db
                   /\ done' = r.s
    /\ UNCHANGED <<scope, live, nextId, uow, page, fetch, conc, aio, eng, race, gen>>

\* one execute_raw_sql call on the OrmOperations instance
ExecuteRawSqlCall(sql, i, v, cOk, rOk) ==
    /\ scope = "operations"
    /\ ops.cfg.cls = "OrmOperations"
    /\ sql # "update" => v = "a"
    /\ sql = "select" => i = 1
    /\ Consulted("ok", cOk, rOk)
    /\ \E r \in {ExecuteRawSql(ops.cfg, ops.cache, db, sql, i, v, cOk, rOk)} :
         /\ ops' = [ops EXCEPT !.cache = r.cache, !.last = r.last]
         /\ db' = r.db
         /\ done' = r.s
    /\ UNCHANGED <<scope, live, nextId, uow, page, fetch, conc, aio, eng, race, gen>>

\* with provider.transaction() as session:
\*     ops.update_in_session(i, data, session)   (or delete_in_session)
InSessionCall(op, i, v, cOk, rOk) ==
    /\ scope = "operations"
    /\ ops.cfg.cls = "OrmOperations"
    /\ op = "delete_in_session" => v = "a"
    /\ Consulted("ok", cOk, rOk)
    /\ \E r \in {InSessionThenCommit(ops.cfg, ops.cache, db, op, i, v, nextId,
                                    cOk, rOk)} :
         /\ ops' = [ops EXCEPT !.cache = r.cache, !.last = r.last]
         /\ db' = r.db
         /\ done' = r.s
    /\ UNCHANGED <<scope, live, nextId, uow, page, fetch, conc, aio, eng, race, gen>>

\* get_by_id(1), first step: the cache lookup; a hit returns at once
GetLookup ==
    /\ scope = "race"
    /\ race.getPc = "start"
    /\ race' = IF race.cache # NoEntry
               THEN [race EXCEPT !.getPc = "done",
                                 !.got = Found(race.cache),
                                 !.trace = Append(@, "lookup")]
               ELSE [race EXCEPT !.getPc = "missed",
                                 !.trace = Append(@, "lookup")]
    /\ UNCHANGED <<scope, live, done, db, nextId, uow, ops, page, fetch,
                   conc, aio, eng, gen>>

\* get_by_id(1), second step: super().get_by_id reads the row in a
\* transaction of its own
GetRead ==
    /\ scope = "race"
    /\ race.getPc = "missed"
    /\ race' = [race EXCEPT !.getPc = "read", !.seen = race.row,
                            !.trace = Append(@, "read")]
    /\ UNCHANGED <<scope, live, done, db, nextId, uow, ops, page, fetch,
                   conc, aio, eng, gen>>

\* get_by_id(1), last step: the result is stored and returned
GetStore ==
    /\ scope = "race"
    /\ race.getPc = "read"
    /\ race' = [race EXCEPT !.getPc = "done",
                            !.cache = StoreResult(race.cache, race.seen),
                            !.got = Found(race.seen),
                            !.trace = Append(@, "store")]
    /\ UNCHANGED <<scope, live, done, db, nextId, uow, ops, page, fetch,
                   conc, aio, eng, gen>>

\* update(1, data), first step: super().update finds the row, sets the
\* field and commits; a failing commit leaves the method by its exception
UpdateCommit(cOk) ==
    /\ scope = "race"
    /\ race.updPc = "start"
    /\ race.row = NoRow => cOk
    /\ race' = [race EXCEPT
                  !.updPc = IF cOk THEN "committed" ELSE "done",
                  !.updOut = IF cOk THEN "ok" ELSE "commitErr",
                  !.row = IF cOk /\ race.row # NoRow THEN race.data ELSE @,
                  !.trace = Append(@, "commit")]
    /\ UNCHANGED <<scope, live, done, db, nextId, uow, ops, page, fetch,
                   conc, aio, eng, gen>>

\* update(1, data), last step: clear_cache, then return
UpdateClear ==
    /\ scope = "race"
    /\ race.updPc = "committed"
    /\ race' = [race EXCEPT !.updPc = "done",
                            !.cache = ClearCache(race.cache),
                            !.trace = Append(@, "clear")]
    /\ UNCHANGED <<scope, live, done, db, nextId, uow, ops, page, fetch,
                   conc, aio, eng, gen>>

\* a get_by_id(1) made once both calls have returned, run on its own
FollowingGet ==
    /\ scope = "race"
    /\ race.getPc = "done"
    /\ race.updPc = "done"
    /\ "follow" \notin {race.trace[k] : k \in 1 .. Len(race.trace)}
    /\ race' = IF race.cache # NoEntry
               THEN [race EXCEPT !.next = Found(race.cache),
                                 !.trace = Append(@, "follow")]
               ELSE [race EXCEPT !.next = Found(race.row),
                                 !.cache = StoreResult(race.cache, race.row),
                                 !.trace = Append(@, "follow")]
    /\ UNCHANGED <<scope, live, done, db, nextId, uow, ops, page, fetch,
                   conc, aio, eng, gen>>

\* one generate_model_file call; an outcome the call never reaches is
\* drawn as the first of its kind
GenerateCall(name, url, tool) ==
    /\ scope = "codegen"
    /\ gen.op = "none"
    /\ ValidateSqlIdentifier(name) = "ValueError" => url = "found"
    /\ (ValidateSqlIdentifier(name) = "ValueError" \/ url = "KeyError")
          => tool = "exit0"
    /\ gen' = GenerateModelFile(name, url, tool)
    /\ UNCHANGED <<scope, live, done, db, nextId, uow, ops, page, fetch,
                   conc, aio, eng, race>>

\* SessionProvider.transaction() / AsyncSessionProvider.transaction() entered
\* by an auto-transaction method called from t: create_session()
CallBegin(t) ==
    /\ scope = "concurrent"
    /\ conc.mode = "provider"
    /\ conc.pc[t] = 0
    /\ conc.calls[t] < MaxCalls
    /\ conc' = [conc EXCEPT !.pc[t] = 1, !.calls[t] = @ + 1,
                            !.sess[t] = SessionMaker(conc.made),
                            !.made = SessionMaker(conc.made),
                            !.users = Append(@, {<<t, conc.calls[t] + 1>>})]
    /\ UNCHANGED <<scope, live, done, db, nextId, uow, ops, page, fetch, aio, eng, race, gen>>

\* _UoWSessionProvider.transaction() entered by a method of a repository the
\* active UnitOfWork handed out, called from t: yields the one session
UowCallBegin(t) ==
    /\ scope = "concurrent"
    /\ conc.mode = "uow"
    /\ conc.pc[t] = 0
    /\ conc.calls[t] < MaxCalls
    /\ conc' = [conc EXCEPT !.pc[t] = 1, !.calls[t] = @ + 1, !.sess[t] = 1]
    /\ UNCHANGED <<scope, live, done, db, nextId, uow, ops, page, fetch, aio, eng, race, gen>>

\* a statement of the method body (get / add / flush / refresh / expunge)
CallStmt(t) ==
    /\ scope = "concurrent"
    /\ conc.pc[t] \in {1, 2}
    /\ conc' = [Invoke(conc, t) EXCEPT !.pc[t] = @ + 1]
    /\ UNCHANGED <<scope, live, done, db, nextId, uow, ops, page, fetch, aio, eng, race, gen>>

\* the provider's exit: commit, or rollback
CallCommitOrRollback(t) ==
    /\ scope = "concurrent"
    /\ conc.mode = "provider"
    /\ conc.pc[t] = 3
    /\ conc' = [Invoke(conc, t) EXCEPT !.pc[t] = 4]
    /\ UNCHANGED <<scope, live, done, db, nextId, uow, ops, page, fetch, aio, eng, race, gen>>

\* the provider's finally: close
CallClose(t) ==
    /\ scope = "concurrent"
    /\ conc.mode = "provider"
    /\ conc.pc[t] = 4
    /\ conc' = [Invoke(conc, t) EXCEPT !.pc[t] = 0, !.sess[t] = 0]
    /\ UNCHANGED <<scope, live, done, db, nextId, uow, ops, page, fetch, aio, eng, race, gen>>

\* the adapter's exit: nothing is invoked on the session
UowCallEnd(t) ==
    /\ scope = "concurrent"
    /\ conc.mode = "uow"
    /\ conc.pc[t] = 3
    /\ conc' = [conc EXCEPT !.pc[t] = 0, !.sess[t] = 0]
    /\ UNCHANGED <<scope, live, done, db, nextId, uow, ops, page, fetch, aio, eng, race, gen>>

\* create_scoped_session() called from t: the registry's session for the
\* caller's key, built on first use
CreateScopedSession(t) ==
    /\ scope = "concurrent"
    /\ conc.mode = "scoped"
    /\ conc.calls[t] < MaxCalls
    /\ LET key == ScopeKey(conc.kind, t)
           sid == IF conc.reg[key] = 0 THEN SessionMaker(conc.made)
                  ELSE conc.reg[key]
       IN  conc' = [conc EXCEPT !.calls[t] = @ + 1, !.reg[key] = sid,
                                !.made = IF conc.reg[key] = 0 THEN sid ELSE @,
                                !.got[t] = @ \cup {sid}]
    /\ UNCHANGED <<scope, live, done, db, nextId, uow, ops, page, fetch, aio, eng, race, gen>>

\* the same call made on the Repository and on the AsyncRepository, the
\* body, the commit and the rollback ending the same way on both
MirrorCall(op, i, v, body, reach, cOk, rOk) ==
    /\ scope = "mirror"
    /\ op = "create" => i = 1 /\ aio.sync.nid <= MaxId
                              /\ aio.async.nid <= MaxId
    /\ op \in {"get_by_id", "delete"} => v = "a"
    /\ (body = "ok" \/ op = "get_by_id") => reach
    /\ Consulted(body, cOk, rOk)
    /\ \E r \in {RepositoryMethod(aio.sync.db, aio.sync.nid, op, i, v, body,
                                   reach, cOk, rOk)},
          a \in {AsyncRepositoryMethod(aio.async.db, aio.async.nid, op, i, v,
                                        body, reach, cOk, rOk)} :
         aio' = [sync |-> [db |-> r.db,
                           nid |-> IF op = "create" /\ reach
                                   THEN aio.sync.nid + 1 ELSE aio.sync.nid,
                           s |-> r.s, out |-> r.out, ret |-> r.ret],
                 async |-> [db |-> a.db,
                            nid |-> IF op = "create" /\ reach
                                    THEN aio.async.nid + 1
                                    ELSE aio.async.nid,
                            s |-> a.s, out |-> a.out, ret |-> a.ret],
                 op |-> op, i |-> i]
    /\ UNCHANGED <<scope, live, done, db, nextId, uow, ops, page, fetch,
                   conc, eng, race, gen>>

\* one ping() call; an outcome that is never reached is drawn as "ok"
PingCall(connect, execute, release) ==
    /\ scope = "engine"
    /\ Len(eng.pings) < MaxPings
    /\ connect # "ok" => execute = "ok" /\ release = "ok"
    /\ eng' = [eng EXCEPT !.pings =
                  Append(@, [connect |-> connect, execute |-> execute,
                             release |-> release,
                             result |-> IF eng.kind = "sync"
                                        THEN Ping(connect, execute, release)
                                        ELSE AsyncPing(connect, execute,
                                                       release)])]
    /\ UNCHANGED <<scope, live, done, db, nextId, uow, ops, page, fetch,
                   conc, aio, race, gen>>

\* the caller fetching the next page, up to page ceil(n / page_size)
PageFetch ==
    /\ scope = "pagination"
    /\ page.p <= PageCount(Len(FilterBy(RowsOf(page.table), page.where)),
                           page.size)
    /\ \E r \in {GetPaginated(page.table, page.p, page.size, page.where,
                               page.by, page.dir)} :
         page' = [page EXCEPT !.p = @ + 1, !.acc = @ \o r.items,
                              !.totals = @ \cup {r.total}]
    /\ UNCHANGED <<scope, live, done, db, nextId, uow, ops, fetch, conc, aio, eng, race, gen>>

Next ==
    \/ TxBegin
    \/ \E S \in BagToSet(live), body \in BodyOutcomes,
          cOk \in BOOLEAN, rOk \in BOOLEAN : TxEnd(S, body, cOk, rOk)
    \/ \E op \in RepoOps, i \in Ids, v \in Vals, body \in BodyOutcomes,
          reach \in BOOLEAN, cOk \in BOOLEAN, rOk \in BOOLEAN :
          RepoCall(op, i, v, body, reach, cOk, rOk)
    \/ \E body \in BodyOutcomes, cOk \in BOOLEAN, rOk \in BOOLEAN :
          OpsAdvancedQuery(body, cOk, rOk)
    \/ \E S \in BagToSet(live) : QueryAll(S)
    \/ \E S \in BagToSet(live), op \in InSessionOps, i \in Ids,
          v \in Vals : InSessionTx(S, op, i, v)
    \/ \E op \in InSessionOps, i \in Ids, v \in Vals : InSessionUow(op, i, v)
    \/ UowEnter
    \/ \E exc \in BodyOutcomes, cOk \in BOOLEAN, rOk \in BOOLEAN :
          UowExit(exc, cOk, rOk)
    \/ \E cOk \in BOOLEAN : UowCommit(cOk)
    \/ \E rOk \in BOOLEAN : UowRollback(rOk)

Spec == Init /\ [][Next]_vars

\* a program that drives one UnitOfWork through the repositories it hands out
BindingInit ==
    /\ scope = "unit_of_work"
    /\ live = EmptyBag
    /\ done = NoSession
    /\ db = EmptyDb
    /\ nextId = 1
    /\ uow = [session |-> NoSession, depth |-> 0, leaked |-> FALSE,
              repos |-> NoRepos, raised |-> FALSE]
    /\ ops = NoOps
    /\ page = NoPage
    /\ fetch = NoFetch
    /\ conc = NoConc
    /\ aio = NoAio
    /\ eng = NoEng
    /\ race = NoRace
    /\ gen = NoGen

BindingNext ==
    \/ UowEnter
    \/ \E exc \in BodyOutcomes, cOk \in BOOLEAN, rOk \in BOOLEAN :
          UowExit(exc, cOk, rOk)
    \/ \E m \in Models : UowRepository(m)
    \/ \E m \in Models, op \in RepoOps, i \in Ids, v \in Vals \cup OrderVals,
          body \in BodyOutcomes, reach \in BOOLEAN, rOk \in BOOLEAN :
          UowRepoCall(m, op, i, v, body, reach, rOk)
    \/ \E cOk \in BOOLEAN : UowCommit(cOk)
    \/ \E rOk \in BOOLEAN : UowRollback(rOk)

BindingSpec == BindingInit /\ [][BindingNext]_vars

\* a program that reads rows through one caching OrmOperations instance and
\* writes them through every write path the instance offers
CacheInit ==
    /\ scope = "operations"
    /\ live = EmptyBag
    /\ done = NoSession
    /\ db = EmptyDb
    /\ nextId = 1
    /\ uow = [session |-> NoSession, depth |-> 0, leaked |-> FALSE,
              repos |-> NoRepos, raised |-> FALSE]
    /\ ops \in {[cfg |-> c, cache |-> EmptyCache, last |-> NoCall] :
                 c \in {x \in OpsConfigs : x.cls = "OrmOperations"
                                             /\ x.cache_enabled}}
    /\ page = NoPage
    /\ fetch = NoFetch
    /\ conc = NoConc
    /\ aio = NoAio
    /\ eng = NoEng
    /\ race = NoRace
    /\ gen = NoGen

CacheNext ==
    \/ \E op \in OpsOps, i \in ProbeIds, v \in Vals \cup {Invalid},
          body \in BodyOutcomes, reach \in BOOLEAN, cOk \in BOOLEAN,
          rOk \in BOOLEAN : OpsCall(op, i, v, body, reach, cOk, rOk)
    \/ \E items \in ItemLists(ops.cfg), size \in 1 .. MaxItems,
          fault \in 0 .. MaxItems : BulkCall(TRUE, items, size, fault)
    \/ \E items \in UpdateLists, fault \in 0 .. MaxItems :
          BulkUpdateCall(items, fault)
    \/ \E sql \in RawSql, i \in Ids, v \in Vals, cOk \in BOOLEAN,
          rOk \in BOOLEAN : ExecuteRawSqlCall(sql, i, v, cOk, rOk)
    \/ \E op \in {"update_in_session", "delete_in_session"}, i \in Ids,
          v \in Vals, cOk \in BOOLEAN, rOk \in BOOLEAN :
          InSessionCall(op, i, v, cOk, rOk)

CacheSpec == CacheInit /\ [][CacheNext]_vars

\* a program that starts get_by_id(1) and update(1, data) together on one
\* caching OrmOperations instance; the row exists or not, and an earlier
\* get_by_id may have cached it
RaceInit ==
    /\ scope = "race"
    /\ live = EmptyBag
    /\ done = NoSession
    /\ db = EmptyDb
    /\ nextId = 1
    /\ uow = [session |-> NoSession, depth |-> 0, leaked |-> FALSE,
              repos |-> NoRepos, raised |-> FALSE]
    /\ ops = NoOps
    /\ page = NoPage
    /\ fetch = NoFetch
    /\ conc = NoConc
    /\ aio = NoAio
    /\ eng = NoEng
    /\ race \in {[NoRace EXCEPT !.row = r, !.cache = c, !.data = v,
                                !.getPc = "start", !.updPc = "start"] :
                    r \in Vals \cup {NoRow}, c \in Vals \cup {NoEntry},
                    v \in Vals}
    /\ race.cache \in {NoEntry, race.row}
    /\ gen = NoGen

RaceNext ==
    \/ GetLookup
    \/ GetRead
    \/ GetStore
    \/ \E cOk \in BOOLEAN : UpdateCommit(cOk)
    \/ UpdateClear
    \/ FollowingGet

RaceSpec == RaceInit /\ [][RaceNext]_vars

\* a program that makes one generate_model_file call
GenInit ==
    /\ scope = "codegen"
    /\ live = EmptyBag
    /\ done = NoSession
    /\ db = EmptyDb
    /\ nextId = 1
    /\ uow = [session |-> NoSession, depth |-> 0, leaked |-> FALSE,
              repos |-> NoRepos, raised |-> FALSE]
    /\ ops = NoOps
    /\ page = NoPage
    /\ fetch = NoFetch
    /\ conc = NoConc
    /\ aio = NoAio
    /\ eng = NoEng
    /\ race = NoRace
    /\ gen = NoGen

GenNext ==
    \E name \in Names, url \in UrlOutcomes, tool \in ToolOutcomes :
        GenerateCall(name, url, tool)

GenSpec == GenInit /\ [][GenNext]_vars

\* a program that calls one Repository or OrmOperations instance
OpsInit ==
    /\ scope = "operations"
    /\ live = EmptyBag
    /\ done = NoSession
    /\ db = EmptyDb
    /\ nextId = 1
    /\ uow = [session |-> NoSession, depth |-> 0, leaked |-> FALSE,
              repos |-> NoRepos, raised |-> FALSE]
    /\ ops \in {[cfg |-> c, cache |-> EmptyCache, last |-> NoCall] :
                 c \in OpsConfigs}
    /\ page = NoPage
    /\ fetch = NoFetch
    /\ conc = NoConc
    /\ aio = NoAio
    /\ eng = NoEng
    /\ race = NoRace
    /\ gen = NoGen

OpsNext ==
    \/ \E op \in OpsOps, i \in ProbeIds, v \in Vals \cup {Invalid},
          body \in BodyOutcomes, reach \in BOOLEAN, cOk \in BOOLEAN,
          rOk \in BOOLEAN : OpsCall(op, i, v, body, reach, cOk, rOk)
    \/ \E optimized \in BOOLEAN, items \in ItemLists(ops.cfg),
          size \in 1 .. MaxItems, fault \in 0 .. MaxItems :
          BulkCall(optimized, items, size, fault)

OpsSpec == OpsInit /\ [][OpsNext]_vars

\* a program that calls bulk_update on one OrmOperations instance over a
\* table that already holds any rows
BulkUpdateInit ==
    /\ scope = "operations"
    /\ live = EmptyBag
    /\ done = NoSession
    /\ db \in [Ids -> Vals \cup {NoRow}]
    /\ nextId = MaxId + 1
    /\ uow = [session |-> NoSession, depth |-> 0, leaked |-> FALSE,
              repos |-> NoRepos, raised |-> FALSE]
    /\ ops \in {[cfg |-> c, cache |-> EmptyCache, last |-> NoCall] :
                 c \in {x \in OpsConfigs : x.cls = "OrmOperations"}}
    /\ page = NoPage
    /\ fetch = NoFetch
    /\ conc = NoConc
    /\ aio = NoAio
    /\ eng = NoEng
    /\ race = NoRace
    /\ gen = NoGen

BulkUpdateNext ==
    \E items \in UpdateLists, fault \in 0 .. MaxItems :
        BulkUpdateCall(items, fault)

BulkUpdateSpec == BulkUpdateInit /\ [][BulkUpdateNext]_vars

\* a program that makes one query on a table
QueryInit ==
    /\ scope = "query"
    /\ live = EmptyBag
    /\ done = NoSession
    /\ db = EmptyDb
    /\ nextId = 1
    /\ uow = [session |-> NoSession, depth |-> 0, leaked |-> FALSE,
              repos |-> NoRepos, raised |-> FALSE]
    /\ ops = NoOps
    /\ page = NoPage
    /\ fetch \in {[NoFetch EXCEPT !.table = tb] : tb \in Tables2}
    /\ conc = NoConc
    /\ aio = NoAio
    /\ eng = NoEng
    /\ race = NoRace
    /\ gen = NoGen

QueryNext ==
    \/ \E limit \in Bounds, offset \in Bounds : GetAllCall(limit, offset)
    \/ \E conds \in ConditionLists, limit \in Bounds :
          FilterByConditionsCall(conds, limit)

QuerySpec == QueryInit /\ [][QueryNext]_vars

\* a program of concurrent callers: auto-transaction calls on repositories
\* that share one provider (threads or tasks), calls on repositories of one
\* active UnitOfWork (threads; its session was built by __enter__), or
\* create_scoped_session calls on one factory (threads or tasks)
ConcInit ==
    /\ scope = "concurrent"
    /\ live = EmptyBag
    /\ done = NoSession
    /\ db = EmptyDb
    /\ nextId = 1
    /\ uow = [session |-> NoSession, depth |-> 0, leaked |-> FALSE,
              repos |-> NoRepos, raised |-> FALSE]
    /\ ops = NoOps
    /\ page = NoPage
    /\ fetch = NoFetch
    /\ aio = NoAio
    /\ eng = NoEng
    /\ race = NoRace
    /\ gen = NoGen
    /\ conc \in {[NoConc EXCEPT !.mode = "provider", !.kind = k] :
                    k \in {"sync", "async"}}
               \cup {[NoConc EXCEPT !.mode = "uow",
                                    !.made = SessionMaker(0),
                                    !.users = <<{}>>]}
               \cup {[NoConc EXCEPT !.mode = "scoped", !.kind = k] :
                       k \in {"sync", "async"}}

ConcNext ==
    \E t \in Threads :
        \/ CallBegin(t)
        \/ UowCallBegin(t)
        \/ CallStmt(t)
        \/ CallCommitOrRollback(t)
        \/ CallClose(t)
        \/ UowCallEnd(t)
        \/ CreateScopedSession(t)

ConcSpec == ConcInit /\ [][ConcNext]_vars

\* a program that gives a Repository and an AsyncRepository the same calls
MirrorInit ==
    /\ scope = "mirror"
    /\ live = EmptyBag
    /\ done = NoSession
    /\ db = EmptyDb
    /\ nextId = 1
    /\ uow = [session |-> NoSession, depth |-> 0, leaked |-> FALSE,
              repos |-> NoRepos, raised |-> FALSE]
    /\ ops = NoOps
    /\ page = NoPage
    /\ fetch = NoFetch
    /\ conc = NoConc
    /\ aio = NoAio
    /\ eng = NoEng
    /\ race = NoRace
    /\ gen = NoGen

MirrorNext ==
    \E op \in CrudOps, i \in ProbeIds, v \in Vals, body \in BodyOutcomes,
       reach \in BOOLEAN, cOk \in BOOLEAN, rOk \in BOOLEAN :
        MirrorCall(op, i, v, body, reach, cOk, rOk)

MirrorSpec == MirrorInit /\ [][MirrorNext]_vars

\* a program that pings one connection manager
EngineInit ==
    /\ scope = "engine"
    /\ live = EmptyBag
    /\ done = NoSession
    /\ db = EmptyDb
    /\ nextId = 1
    /\ uow = [session |-> NoSession, depth |-> 0, leaked |-> FALSE,
              repos |-> NoRepos, raised |-> FALSE]
    /\ ops = NoOps
    /\ page = NoPage
    /\ fetch = NoFetch
    /\ conc = NoConc
    /\ aio = NoAio
    /\ eng \in {[NoEng EXCEPT !.kind = k] : k \in {"sync", "async"}}
    /\ race = NoRace
    /\ gen = NoGen

EngineNext ==
    \E connect \in EngineOutcomes, execute \in EngineOutcomes,
       release \in EngineOutcomes : PingCall(connect, execute, release)

EngineSpec == EngineInit /\ [][EngineNext]_vars

\* a program that reads one table page by page
PageInit ==
    /\ scope = "pagination"
    /\ live = EmptyBag
    /\ done = NoSession
    /\ db = EmptyDb
    /\ nextId = 1
    /\ uow = [session |-> NoSession, depth |-> 0, leaked |-> FALSE,
              repos |-> NoRepos, raised |-> FALSE]
    /\ ops = NoOps
    /\ page \in {[NoPage EXCEPT !.table = tb, !.size = s, !.where = w,
                                 !.by = by, !.dir = dir] :
                    tb \in Tables, s \in 1 .. MaxPageSize,
                    w \in {"any"} \cup Vals, by \in {"none", "id", "val"},
                    dir \in {"asc", "desc"}}
    /\ fetch = NoFetch
    /\ conc = NoConc
    /\ aio = NoAio
    /\ eng = NoEng
    /\ race = NoRace
    /\ gen = NoGen

PageNext == PageFetch

PageSpec == PageInit /\ [][PageNext]_vars

\* ================================================================ claims
\* every session the state still describes
AllSessions == ({done} \cup BagToSet(live) \cup {uow.session}) \ {NoSession}

\* the sessions on which a SessionProvider.transaction() exit has run
Finished ==
    {S \in AllSessions : S.kind \in {"tx", "repo"} /\ S.body # "run"}

BodyError(S) == IF S.body = "exc" THEN "bodyExc" ELSE "bodyBase"

\* C1: a transaction() block whose body raises leaves committed storage as
\* it was: neither the writes in its body nor its exit change db
C1_RaisedBlockCommitsNothing ==
    [][\A S \in BagToSet(live) :
         (\/ \E body \in {"exc", "base"}, cOk \in BOOLEAN, rOk \in BOOLEAN :
                TxEnd(S, body, cOk, rOk)
          \/ \E op \in InSessionOps, i \in Ids, v \in Vals :
                InSessionTx(S, op, i, v))
         => db' = db]_vars

C1_Witness ==
    /\ done.kind = "tx"
    /\ done.body \in {"exc", "base"}
    /\ done.dirty
    /\ done.closed

\* C2 as stated: a body that does not raise gets one commit, then close, and
\* never a rollback
C2_Original ==
    \A S \in Finished :
        S.body = "ok" =>
            S.log \in {<<"commit", "close">>, <<"commitX", "close">>}

\* C2 amended: a body that does not raise gets exactly one commit first and
\* one close last; rollback is invoked between them exactly when that
\* commit failed
C2_CommitOnceThenClose ==
    \A S \in Finished :
        S.body = "ok" =>
            S.log \in {<<"commit", "close">>,
                       <<"commitX", "rollback", "close">>,
                       <<"commitX", "rollbackX", "close">>}

C2_Witness ==
    /\ done.kind = "tx"
    /\ done.body = "ok"
    /\ done.dirty
    /\ done.log = <<"commit", "close">>
    /\ done.out = "ok"

CommitFailed(S) == Len(S.log) > 0 /\ S.log[1] = "commitX"

RollbackFailed(S) == \E k \in 1 .. Len(S.log) : S.log[k] = "rollbackX"

C6_Original ==
    \A S \in AllSessions : S.closed => (S.preC # S.preR)

\* C6 amended: before its close a session has had commit or rollback invoked
\* at least once, except the session of a transaction() block whose body
\* left with a BaseException that is no Exception
C6_CommitOrRollbackBeforeClose ==
    \A S \in AllSessions :
        S.closed =>
            \/ S.preC
            \/ S.preR
            \/ S.kind \in {"tx", "repo"} /\ S.body = "base"

C6_Witness ==
    /\ uow.session # NoSession
    /\ uow.session.closed
    /\ uow.session.body = "exc"
    /\ uow.session.preC
    /\ uow.session.preR

\* C7: no statement runs on a session after its close
C7_NoUseAfterClose == \A S \in AllSessions : ~S.reused

\* C8: the session of an auto-transaction repository call is used by that
\* call alone and is closed when the call is over, returned or raised
C8_RepoSessionsOwnedAndClosed ==
    \A S \in AllSessions :
        S.kind = "repo" => (S.uses = 1 /\ S.closed /\ S.pend = Clean)

C8_Witness ==
    /\ done.kind = "repo"
    /\ done.body = "exc"
    /\ done.dirty
    /\ done.out = "rollbackErr"
    /\ done.closed

\* what an in-session call may do to the session it was given
InSessionFrame(S, T, op, i, v) ==
    /\ T.log = S.log
    /\ T.closed = S.closed
    /\ T.preC = S.preC
    /\ T.preR = S.preR
    /\ \A j \in Ids : S.pend[j] # Keep => T.pend[j] # Keep
    /\ op = "create_in_session" => T.pend[nextId] = v
    /\ (op = "update_in_session" /\ i \in Present(S, db)) => T.pend[i] = v
    /\ (op = "delete_in_session" /\ i \in Present(S, db)) => T.pend[i] = NoRow

\* C9: an in-session call invokes no commit, rollback or close on the
\* session it is given, leaves committed storage alone, and leaves its own
\* change and every earlier one pending on that session
C9_InSessionLeavesTransactionToCaller ==
    [][\A op \in InSessionOps, i \in Ids, v \in Vals :
         /\ InSessionUow(op, i, v) =>
               (db' = db /\ InSessionFrame(uow.session, uow'.session, op, i, v))
         /\ \A S \in BagToSet(live) :
               InSessionTx(S, op, i, v) =>
                   /\ db' = db
                   /\ \E T \in BagToSet(live') :
                         /\ live' = (live (-) One(S)) (+) One(T)
                         /\ InSessionFrame(S, T, op, i, v)]_vars

C9_Witness ==
    /\ uow.session # NoSession
    /\ ~uow.session.closed
    /\ uow.session.pend # Clean
    /\ ~uow.session.preC
    /\ db = EmptyDb

UowExited == uow.session # NoSession /\ uow.session.body # "run"

C11_RaisingCallCommitsNothing ==
    [][(/\ uow.depth > 0
        /\ ~uow.session.preC
        /\ ~(\E cOk \in BOOLEAN : UowCommit(cOk))
        /\ ~(\E cOk \in BOOLEAN, rOk \in BOOLEAN : UowExit("ok", cOk, rOk)))
       => /\ db' = db
          /\ (uow'.depth < uow.depth /\ uow'.session.body \in {"exc", "base"})
             => /\ uow'.session.closed
                /\ uow'.session.pend = Clean
                /\ ~uow'.session.preC]_vars

C11_Witness ==
    /\ uow.raised
    /\ uow.session.body = "exc"
    /\ uow.session.dirty
    /\ uow.session.closed
    /\ ~uow.session.preC
    /\ uow.repos = [m \in Models |-> "cur"]
    /\ db = EmptyDb

\* what an auto-transaction call on a binding may do to the shared session
BindingFrame(S, T, m, op, i, v) ==
    /\ T.log = S.log
    /\ T.closed = S.closed
    /\ T.preC = S.preC
    /\ T.preR = S.preR
    /\ \A j \in Ids : S.pend[j] # Keep => T.pend[j] # Keep
    /\ op = "create" => T.pend[nextId] = v
    /\ (op = "update" /\ View(S, db)[i] \in ValsOf(m)) => T.pend[i] = v
    /\ (op = "delete" /\ View(S, db)[i] \in ValsOf(m)) => T.pend[i] = NoRow

\* C12: every auto-transaction call that returns from a binding of an
\* active UnitOfWork leaves its change pending on uow.session, invokes no
\* commit, rollback or close on it and leaves committed storage alone;
\* storage changes only through uow.commit() or an exit that commits
C12_BindingsShareUowSession ==
    [][/\ \A m \in Models, op \in RepoOps, i \in Ids,
             v \in Vals \cup OrderVals :
            (UowRepoCall(m, op, i, v, "ok", TRUE, TRUE) /\ uow.depth > 0)
            => /\ db' = db
               /\ BindingFrame(uow.session, uow'.session, m, op, i, v)
       /\ db' # db =>
            \/ UowCommit(TRUE)
            \/ \E rOk \in BOOLEAN : UowExit("ok", TRUE, rOk)]_vars

\* C13: of the sessions one UnitOfWork has created, at most one is unclosed
C13_AtMostOneUnclosedSession ==
    ~(uow.leaked /\ uow.session # NoSession /\ ~uow.session.closed)

\* C14: when the commit of a UnitOfWork exit fails, rollback is invoked on
\* the session before it is closed
C14_UowExitCommitFailureRollsBack ==
    (UowExited /\ CommitFailed(uow.session)) =>
        uow.session.log \in {<<"commitX", "rollback", "close">>,
                             <<"commitX", "rollbackX", "close">>}

\* the row id names in storage d, as get_by_id hands it back
Stored(d, i) ==
    IF i \in Ids /\ d[i] # NoRow THEN Snapshot(i, d[i]) ELSE None

\* C15: the instance a create call returns carries an identifier of the
\* table, storage then holds that row with the returned field value, and a
\* get_by_id with that identifier issued next returns an equal snapshot
C15_CreatedIsReadBack ==
    [][/\ (ops'.last.op = "create" /\ ops'.last.out = "ok")
          => /\ ops'.last.ret.id \in Ids
             /\ Stored(db', ops'.last.ret.id) = ops'.last.ret
       /\ (/\ ops.last.op = "create" /\ ops.last.out = "ok"
           /\ ops'.last.op = "get_by_id" /\ ops'.last.out = "ok"
           /\ ops'.last.i = ops.last.ret.id)
          => ops'.last.ret = ops.last.ret]_vars

C15_Witness ==
    /\ ops.cfg.cls = "Repository"
    /\ ops.last.op = "create"
    /\ ops.last.out = "ok"
    /\ ops.last.ret = Snapshot(1, "b")
    /\ db[1] = "b"

\* C16: update on an id that names no row, with a payload that passes
\* validation and no failure of the engine, returns None without raising
\* and leaves committed storage as it was, from every reachable state
C16_UpdateMissingIsNoOp ==
    [][\A i \in ProbeIds, v \in Vals :
         (/\ OpsCall("update", i, v, "ok", TRUE, TRUE, TRUE)
          /\ Stored(db, i) = None)
         => /\ db' = db
            /\ nextId' = nextId
            /\ ops'.last.out = "ok"
            /\ ops'.last.ret = None]_vars

C16_Witness ==
    /\ ops.last.op = "update"
    /\ ops.last.out = "ok"
    /\ ops.last.ret = None
    /\ ops.last.i \in Ids
    /\ db = EmptyDb
    /\ nextId = 1

\* C17: delete on an id that names no row returns false and leaves storage
\* as it was; delete on an existing id returns true and removes that row
\* only; and after a delete that returned true, a get_by_id for that id
\* issued next returns None and an exists returns false, also when the
\* cache held an entry for the id
C17_DeleteThenAbsent ==
    [][/\ \A i \in ProbeIds :
            OpsCall("delete", i, "a", "ok", TRUE, TRUE, TRUE)
            => /\ ops'.last.out = "ok"
               /\ IF Stored(db, i) = None
                  THEN ops'.last.ret = Bool(FALSE) /\ db' = db
                  ELSE /\ ops'.last.ret = Bool(TRUE)
                       /\ db' = [db EXCEPT ![i] = NoRow]
       /\ (/\ ops.last.op = "delete" /\ ops.last.ret = Bool(TRUE)
           /\ ops'.last.out = "ok" /\ ops'.last.i = ops.last.i)
          => /\ ops'.last.op = "get_by_id" => ops'.last.ret = None
             /\ ops'.last.op = "exists" => ops'.last.ret = Bool(FALSE)]_vars

C17_Witness ==
    /\ ops.cfg.cls = "OrmOperations"
    /\ ops.last.op = "delete"
    /\ ops.last.ret = Bool(TRUE)
    /\ ops.last.i \in ops.last.cleared
    /\ db = EmptyDb

Returned(l, names) == l.op \in names /\ l.out = "ok"

\* C18 as stated: after any create, update or delete call that returns,
\* the cache holds no entry
C18_Original ==
    Returned(ops.last, {"create", "update", "delete"})
        => ops.cache = EmptyCache

\* C18 amended: after any create or update call that returns, and after a
\* delete call that returns true, the cache holds no entry, and a
\* get_by_id issued next is not answered from the cache: it returns what
\* storage holds.  A delete that returns false leaves the cache as it was.
C18_WritesClearCache ==
    [][/\ (\/ Returned(ops.last, {"create", "update"})
           \/ Returned(ops.last, {"delete"}) /\ ops.last.ret = Bool(TRUE))
          => /\ ops.cache = EmptyCache
             /\ ops'.last.op = "get_by_id"
                => /\ ~ops'.last.hit
                   /\ ops'.last.out = "ok"
                      => ops'.last.ret = Stored(db, ops'.last.i)
       /\ \A i \in ProbeIds :
            (/\ OpsCall("delete", i, "a", "ok", TRUE, TRUE, TRUE)
             /\ Stored(db, i) = None)
            => ops'.cache = ops.cache]_vars

C18_Witness ==
    /\ ops.last.op = "update"
    /\ ops.last.out = "ok"
    /\ ops.last.cleared # {}
    /\ ops.last.i \notin ops.last.cleared
    /\ ops.cache = EmptyCache

\* C19: a call that ends in the validator's ValueError has added no row to
\* a session
C19_ValidationBeforePersistence ==
    ops.last.out = "ValueError" => ~ops.last.added

\* C20: at every point of a run over the pages 1 .. ceil(n / s) of a
\* table, the items received so far are the first rows of the unpaginated,
\* identically filtered and ordered result, in its order; after the last
\* page they are that whole result, every row once; and every call
\* reported the total n
C20_PagesConcatenateToFullResult ==
    LET full == QueryAllRows(page.table, page.where, page.by, page.dir)
        n == Len(full)
        got == (page.p - 1) * page.size
    IN  /\ page.acc = SubSeq(full, 1, IF got < n THEN got ELSE n)
        /\ page.totals \subseteq {n}
        /\ page.p = PageCount(n, page.size) + 1 =>
              /\ page.acc = full
              /\ \A k \in 1 .. Len(page.table) :
                    (page.where = "any" \/ page.table[k] = page.where) =>
                        Cardinality({j \in 1 .. Len(page.acc) :
                                       page.acc[j].id = k}) = 1
              /\ n > 0 => page.totals = {n}

C20_Witness ==
    /\ Len(page.table) = 3
    /\ page.size = 2
    /\ page.where = "any"
    /\ page.by = "val"
    /\ page.dir = "desc"
    /\ page.p = 3
    /\ Len(page.acc) = 3
    /\ page.acc[1].id # 1
    /\ page.totals = {3}

\* the items of a bulk_update list that carry the id key and name a row of d
Hits(items, d) ==
    {k \in 1 .. Len(items) :
        items[k].id \in Ids /\ d[items[k].id] # NoRow}

\* the items among them that set row i's field
Setting(items, d, i) ==
    {k \in Hits(items, d) : items[k].id = i /\ items[k].val # Keep}

\* C21: a bulk_update call that returns gives the number of its items that
\* carry the id key and whose id names a stored row; each such row holds the
\* field value of the (last) item that set it, and every other row is as it
\* was; an item without the id key or with an unknown id raises nothing:
\* the call raises only when the engine fails
C21_BulkUpdateCountsAndUpdatesHits ==
    [][ops'.last.op = "bulk_update" =>
         LET items == ops'.last.args
         IN  /\ ops'.last.out \in {"ok", "bodyExc", "commitErr",
                                    "rollbackErr"}
             /\ ops'.last.out = "ok" =>
                  /\ ops'.last.ret = IntOf(Cardinality(Hits(items, db)))
                  /\ \A i \in Ids :
                        db'[i] =
                          IF Setting(items, db, i) = {} THEN db[i]
                          ELSE items[CHOOSE k \in Setting(items, db, i) :
                                       \A j \in Setting(items, db, i) :
                                           j <= k].val
             /\ ops'.last.out # "ok" => db' = db]_vars

C21_Witness ==
    /\ ops.last.op = "bulk_update"
    /\ ops.last.out = "ok"
    /\ ops.last.args = <<[id |-> 1, val |-> "b"], [id |-> NoKey, val |-> "a"]>>
    /\ ops.last.ret = IntOf(1)
    /\ db[1] = "b"

C23_FilterIsOrOfAndGroups ==
    (fetch.op = "filter_by_conditions" /\ fetch.limit = NoBound) =>
        LET rows == Records(fetch.table)
            Sat(r) == \/ fetch.conds = <<>>
                      \/ \E g \in 1 .. Len(fetch.conds) :
                            \A f \in Fields :
                                fetch.conds[g][f] \in {Absent, r[f]}
        IN  fetch.rows = SelectSeq(rows, Sat)

\* C27: get_all skips the first offset rows of the unbounded result and
\* returns at most limit rows, all that are left when no limit is given
C27_GetAllSkipsAndBounds ==
    fetch.op = "get_all" =>
        LET rows == Records(fetch.table)
            skip == IF fetch.offset = NoBound THEN 0 ELSE fetch.offset
            left == SubSeq(rows, skip + 1, Len(rows))
        IN  /\ fetch.limit = NoBound => fetch.rows = left
            /\ fetch.limit # NoBound =>
                  /\ Len(fetch.rows) <= fetch.limit
                  /\ fetch.rows =
                       SubSeq(left, 1, IF fetch.limit < Len(left)
                                       THEN fetch.limit ELSE Len(left))

\* C24: with concurrent auto-transaction calls on one shared provider, in
\* any interleaving, every session has been invoked by one call only, so no
\* call ever invokes anything on a session another in-flight call uses
C24_ProviderSessionsNotShared ==
    conc.mode = "provider" =>
        /\ \A sid \in 1 .. Len(conc.users) :
              Cardinality(conc.users[sid]) <= 1
        /\ \A t \in Threads, u \in Threads :
              (t # u /\ conc.sess[t] # 0) => conc.sess[t] # conc.sess[u]
        /\ ~conc.interleaved

C24_Witness ==
    /\ conc.mode = "provider"
    /\ conc.kind = "async"
    /\ conc.pc = [t \in Threads |-> IF t = 1 THEN 2 ELSE 4]
    /\ conc.calls[1] = 2
    /\ conc.made >= 3

\* C25: calls made from different threads through the repositories of one
\* active UnitOfWork never interleave their session operations
C25_UowCallsSerialized == conc.mode = "uow" => ~conc.interleaved

\* C30: create_scoped_session gives a caller the same session on every
\* call, and never gives two different threads or tasks the same session
C30_ScopedSessionPerContext ==
    conc.mode = "scoped" =>
        /\ \A t \in Threads : Cardinality(conc.got[t]) <= 1
        /\ \A t \in Threads, u \in Threads :
              t # u => conc.got[t] \cap conc.got[u] = {}

\* C26: given the same calls with the same outcomes of body, commit and
\* rollback, the AsyncRepository on AsyncSessionProvider.transaction() and
\* the Repository on SessionProvider.transaction() make the same commit /
\* rollback / close calls in the same order, hand the caller the same value
\* or error, and leave the same committed rows
C26_AsyncMirrorsSync ==
    /\ aio.async.s.log = aio.sync.s.log
    /\ aio.async.out = aio.sync.out
    /\ aio.async.ret = aio.sync.ret
    /\ aio.async.db = aio.sync.db
    /\ aio.async.s = aio.sync.s

C26_Witness ==
    /\ aio.op = "update"
    /\ aio.async.out = "rollbackErr"
    /\ aio.async.s.log = <<"commitX", "rollbackX", "close">>
    /\ aio.async.db[1] = "a"
    /\ aio.sync.ret = Raised

\* C29 as stated: ping never raises; it returns true when the round trip
\* succeeded and false when connecting or executing failed in any way
C29_Original ==
    \A k \in 1 .. Len(eng.pings) :
        LET p == eng.pings[k]
        IN  /\ p.result \in {"True", "False"}
            /\ p.result = "True" <=>
                  (p.connect = "ok" /\ p.execute = "ok" /\ p.release = "ok")

\* C29: ping returns true when connecting, executing and releasing the
\* connection all succeed, and false when what leaves the block is an
\* Exception; it raises only a BaseException that is no Exception, and it
\* raises that one
C29_PingCatchesExceptions ==
    \A k \in 1 .. Len(eng.pings) :
        LET p == eng.pings[k]
            outs == {p.connect, p.execute, p.release}
        IN  /\ p.result = "True" <=> outs = {"ok"}
            /\ "base" \notin outs => p.result \in {"True", "False"}
            /\ ("exc" \in outs /\ "base" \notin outs) => p.result = "False"
            /\ p.result = "raised" =>
                  (p.connect = "base" \/ p.execute = "base"
                   \/ p.release = "base")
            /\ (p.connect = "base" \/ p.release = "base"
                \/ (p.execute = "base" /\ p.release = "ok"))
                 => p.result = "raised"

C29_Witness ==
    /\ eng.kind = "async"
    /\ Len(eng.pings) = 2
    /\ eng.pings[1].execute = "exc"
    /\ eng.pings[1].result = "False"
    /\ eng.pings[2].connect = "ok"
    /\ eng.pings[2].execute = "base"
    /\ eng.pings[2].result = "raised"

\* C28: every instance a call of get_by_id, create, update, bulk_create or
\* bulk_create_optimized returns is a detached snapshot with loaded field
\* values: it was refreshed and expunged before the exit committed and
\* closed the session
C28_ReturnedInstancesAreSnapshots ==
    (/\ ops.last.op \in {"get_by_id", "create", "update", "bulk_create",
                          "bulk_create_optimized"}
     /\ ops.last.out = "ok") =>
        /\ ops.last.ret # Expired
        /\ \A k \in 1 .. Len(ops.last.insts) :
              /\ ops.last.insts[k] # Expired
              /\ ops.last.insts[k].val = ops.last.args[k]

\* C34: while a UnitOfWork is active, repository(model) hands out, for
\* every entity type, a binding that runs on the session of the current
\* activation
C34_BindingsFollowActivation ==
    (uow.depth > 0 /\ UowSessionProperty(uow) # NoSession) =>
        \A m \in Models : RepositoryFor(uow.repos, m)[m] = "cur"

\* C37: in an active UnitOfWork block, a manual commit that succeeds makes
\* committed storage what the session saw and leaves nothing pending; a
\* manual rollback leaves committed storage as it is, discards what is
\* pending when it succeeds, and leaves the session open and the block
\* active; and the exit an exception causes leaves committed storage as it
\* is, so what was committed manually stays and only what was pending since
\* is lost
C37_ManualCommitIsDurable ==
    [][(uow.depth > 0 /\ uow.session # NoSession /\ ~uow.session.closed) =>
         /\ UowCommit(TRUE) =>
               /\ db' = View(uow.session, db)
               /\ uow'.session.pend = Clean
               /\ ~uow'.session.closed
               /\ uow'.depth = uow.depth
         /\ \A rOk \in BOOLEAN :
               UowRollback(rOk) =>
                   /\ db' = db
                   /\ rOk => uow'.session.pend = Clean
                   /\ ~uow'.session.closed
                   /\ uow'.depth = uow.depth
         /\ \A exc \in {"exc", "base"}, rOk \in BOOLEAN :
               UowExit(exc, TRUE, rOk) =>
                   /\ db' = db
                   /\ uow'.session.closed
                   /\ uow'.session.pend = Clean]_vars

C37_Witness ==
    /\ UowExited
    /\ uow.session.body = "exc"
    /\ uow.session.preC
    /\ uow.session.preR
    /\ uow.session.dirty
    /\ uow.session.log = <<"rollback", "close">>
    /\ db # EmptyDb

\* C36: when the body of an AsyncSessionProvider.transaction() block is
\* cancelled while suspended, or the body of either transaction() ends with
\* an error that is not an ordinary Exception, nothing the block wrote is
\* committed, no commit is attempted, and the session is closed
C36_CancelledBlockCommitsNothing ==
    [][/\ aio'.async.s.body = "base" =>
             /\ aio'.async.db = aio.async.db
             /\ aio'.async.s.closed
             /\ aio'.async.s.pend = Clean
             /\ aio'.async.s.log = <<"close">>
             /\ aio'.async.out = "bodyBase"
       /\ aio'.sync.s.body = "base" =>
             /\ aio'.sync.db = aio.sync.db
             /\ aio'.sync.s.closed
             /\ aio'.sync.s.pend = Clean
             /\ aio'.sync.s.log = <<"close">>
             /\ aio'.sync.out = "bodyBase"]_vars

C36_Witness ==
    /\ aio.op = "create"
    /\ aio.async.s.body = "base"
    /\ aio.async.s.dirty
    /\ aio.async.s.closed
    /\ aio.async.out = "bodyBase"
    /\ aio.async.db = EmptyDb
    /\ aio.sync.s.body = "base"
    /\ aio.sync.s.dirty

C38_Witness ==
    /\ ops.last.op = "bulk_create_optimized"
    /\ Len(ops.last.args) = 2
    /\ ops.last.out \in {"ValueError", "bodyExc"}
    /\ ops.last.added
    /\ done.log = <<"rollback", "close">>
    /\ db = EmptyDb

C31_CallJoinsOpenBlock ==
    [][(\E S \in BagToSet(live) : S.kind = "tx" /\ S.body = "run") =>
         \A op \in RepoOps, i \in Ids, v \in Vals, reach \in BOOLEAN :
            RepoCall(op, i, v, "ok", reach, TRUE, TRUE) =>
                /\ db' = db
                /\ done' = done]_vars

\* C33: on one OrmOperations instance with the cache enabled, whatever
\* calls came before, a get_by_id(id) answered from the cache returns the
\* row as it is committed now, and a row that is committed
C33_CachedReadIsCurrent ==
    (ops.cfg.cache_enabled /\ ops.last.op = "get_by_id" /\ ops.last.hit) =>
        /\ db[ops.last.i] # NoRow
        /\ ops.last.ret = Snapshot(ops.last.i, db[ops.last.i])

\* C32: generate_model_file raises ValueError for a table name that is
\* empty or holds a character other than a letter, a digit or the
\* underscore, and does not run the code-generation command for it
ValidName(s) == Len(s) > 0 /\ \A k \in 1 .. Len(s) : s[k] \in {"a", "7", "_"}

C32_InvalidNameRaisesValueError ==
    (gen.op = "generate_model_file" /\ ~ValidName(gen.name)) =>
        /\ gen.raised = "ValueError"
        /\ ~gen.ran

\* C32, second part alone: the command is not run for such a name
C32_InvalidNameNeverRuns ==
    (gen.op = "generate_model_file" /\ ~ValidName(gen.name)) => ~gen.ran

\* the place of a step in the order the steps were taken, 0 when not taken
StepAt(label) ==
    IF \E k \in 1 .. Len(race.trace) : race.trace[k] = label
    THEN CHOOSE k \in 1 .. Len(race.trace) : race.trace[k] = label
    ELSE 0
BothReturned == race.getPc = "done" /\ race.updPc = "done"
Followed == StepAt("follow") > 0
HoldsOlderSnapshot == race.cache # NoEntry /\ race.cache # race.row

\* get_by_id read the row before update committed, and stored what it had
\* read after update had cleared the cache
StoreFollowsClear ==
    /\ StepAt("read") > 0
    /\ StepAt("commit") > StepAt("read")
    /\ StepAt("clear") > 0
    /\ StepAt("store") > StepAt("clear")

\* C35 as stated: in every interleaving of get_by_id(id) and update(id,
\* data) on one caching instance, once both have returned the cache holds
\* no snapshot of id older than the committed row, and a following
\* get_by_id(id) returns the committed values
C35_Original ==
    BothReturned =>
        /\ ~HoldsOlderSnapshot
        /\ Followed => race.next = Found(race.row)

\* C35: once both calls have returned, the cache holds a snapshot older
\* than the committed row exactly in the interleaving in which get_by_id
\* read the row before the commit of an update that changed it and stored
\* it after update's clear_cache, and a following get_by_id(id) then
\* returns that snapshot; in every other interleaving the cache holds no
\* older snapshot and a following get_by_id(id) returns the committed row
C35_StaleOnlyWhenStoreFollowsClear ==
    BothReturned =>
        IF StoreFollowsClear /\ race.seen # race.row
        THEN /\ race.cache = race.seen
             /\ Followed => race.next = Found(race.seen)
        ELSE /\ ~HoldsOlderSnapshot
             /\ Followed => race.next = Found(race.row)

C35_Witness ==
    /\ race.trace = <<"lookup", "read", "commit", "store", "clear", "follow">>
    /\ race.seen # race.row
    /\ race.row = race.data
    /\ race.updOut = "ok"
    /\ race.got = Found(race.seen)
    /\ race.next = Found(race.data)
====
